---- MODULE Spec2Model ----
(***************************************************************************)
(* The chat session of src/chat.ts: the agent loop doSendMessage with its  *)
(* tool registry (src/tools/index.ts, exec.ts, web-search.ts, web-fetch)   *)
(* and the token refresh of src/tokens.ts; the slash commands of the       *)
(* editor; the login flow of src/auth.ts with the callback server of       *)
(* oauth.ts; and the stream decoder readStream of src/api.ts.              *)
(*                                                                         *)
(* Each part has its own specification: Spec and FairSpec (the chat        *)
(* session), CommandSpec (the chat session with slash commands), LoginSpec *)
(* and FairLoginSpec (one login attempt), StreamSpec (one response body    *)
(* read by readStream). The variables of the other parts keep their        *)
(* initial values.                                                         *)
(*                                                                         *)
(* JavaScript runs one task at a time and yields only at an await, so one  *)
(* action is the code from one await to the next: the call of sendMessage, *)
(* of executeTool and of the token endpoint are the suspension points.     *)
(***************************************************************************)
EXTENDS Naturals, Sequences, FiniteSets

\* ------------------------------------------------------------------ bounds

\* Messages the user submits per session.
MaxSubmits == 2
\* Entries history holds when the user submits a message.
MaxPriorHistory == 2
\* Function calls of a session other than the plain one (DefaultCall answered
\* with a result that carries no error flag).
MaxOtherCalls == 1
\* Slash commands the user submits per session.
MaxCommands == 1
\* Requests the callback server receives in one login attempt.
MaxRequests == 2
\* Lines ended by a line feed in a response body.
MaxLines == 3
\* Bytes of a chunk that is not the rest of the body.
MaxChunk == 2
\* Parts of the candidate of one frame.
MaxParts == 2
\* Models of one answer of fetchAvailableModels.
MaxModels == 2
\* Tokens of a text handed to stripInlineThinkingTags.
MaxText == 5
\* Calls of session.prompt in one run of the agent-session chat.
MaxPrompts == 3

\* Invocations of doSendMessage that can be suspended at the same time.
MaxTasks == 2
\* Clock ticks of a session.
MaxNow == 1
\* Lifetime the token endpoint grants, less the expiry buffer, in ticks.
Lifetime == 1

\* ------------------------------------------------------- program constants

MAX_TOOL_LOOPS == 15

TOKEN_EXPIRY_BUFFER_MS == 5 * 60 * 1000

CODE_ASSIST_ENDPOINTS ==
    <<"https://cloudcode-pa.googleapis.com",
      "https://daily-cloudcode-pa.sandbox.googleapis.com">>

DEFAULT_PROJECT_ID == "rising-fact-p41fc"

Tasks == 1..MaxTasks

\* Text the user submits.
UserTexts == {"hello"}

\* toolMap of the registry.
allTools == {"exec", "web_search", "web_fetch"}

\* What the model may name: the registered tools and a name not registered.
ToolNames == allTools \cup {"bogus"}

\* The argument object of a call: "ok" carries a non-blank command, query or
\* url; "blank" carries none or an empty one; "noargs" is a function call
\* whose args field is absent (call.args is undefined).
ArgKinds == {"ok", "blank", "noargs"}

Calls == [name : ToolNames, args : ArgKinds]

NoCall == [name |-> "none", args |-> "none"]

DefaultCall == [name |-> "web_search", args |-> "ok"]

\* Rounds of a turn in which the model may return a call other than
\* DefaultCall: the first two and the last the budget allows.
OtherRounds == {1, 2, MAX_TOOL_LOOPS}

\* Errors sendMessage fails with: the message holds the HTTP status and the
\* response body, or is the empty-body message.
TransportErrors == {"API error (HTTP 401)", "API error (HTTP 500)",
                    "API error (HTTP 500): code 401", "empty response body"}

\* (err as Error).message.includes("401")
Includes401(msg) ==
    msg \in {"API error (HTTP 401)", "API error (HTTP 500): code 401"}

NoFailure == [message |-> "none", at |-> 0]

\* ------------------------------------------------------------------- state

VARIABLES
    history,      \* ChatMessage[] of the session
    isBusy,       \* the busy flag
    pc,           \* per task: the await an invocation of doSendMessage is at
    loopCount,    \* per task: loopCount
    call,         \* per task: result.functionCall being executed
    chatLog,      \* system lines added to the chat log since the last user line
    tokens,       \* the in-memory credentials of runTui
    tokenFile,    \* tokens.json
    now,          \* Date.now()
    submits,      \* messages submitted
    started,      \* invocations that passed the guard
    ended,        \* how the loop of the latest turn was left
    histAtStart,  \* history when the latest turn began
    sends,        \* sendMessage calls of the latest turn
    fcAnswers,    \* results with a function call returned in the latest turn
    failure,      \* the error caught in the latest turn, and loopCount then
    refreshReqs,  \* refresh-grant requests of the latest turn
    toolRaised,   \* executeTool rejected in the latest turn
    otherCalls,   \* calls counted against MaxOtherCalls
    totalUsage,   \* cumulative token usage of the session
    commands      \* slash commands submitted

loopVars == <<history, isBusy, pc, loopCount, call, chatLog, submits, started, ended,
              histAtStart, sends, fcAnswers, failure, toolRaised,
              otherCalls, totalUsage, commands>>

credVars == <<tokens, tokenFile, now, refreshReqs>>

\* One login attempt (src/auth.ts main, startCallbackServer of oauth.ts).
VARIABLES
    phase,        \* the await main is suspended at, or how the process ended
    trail,        \* the stages of the flow reached so far, in the order reached
    settled,      \* callbackPromise: pending, resolved or rejected
    callbackUrl,  \* what callbackPromise resolved with
    listening,    \* the server holds the listening socket
    closeCalls,   \* calls of server.close
    immediates,   \* setImmediate callbacks scheduled and not yet run
    responses,    \* the status codes the server answered with, in order
    timerFired,   \* the timeout callback has run
    exchanges,    \* calls of exchangeCode
    fileWrites    \* calls of saveTokens

loginVars == <<phase, trail, settled, callbackUrl, listening, closeCalls, immediates,
               responses, timerFired, exchanges, fileWrites>>

\* One response body read by readStream (src/api.ts).
VARIABLES
    stream,               \* the bytes of the body
    pos,                  \* bytes the reader has handed out
    utf8Pending,          \* bytes the TextDecoder holds back between chunks
    buffer,               \* buffer
    events,               \* the callbacks invoked, in order
    inputTokens,          \* inputTokens
    outputTokens,         \* outputTokens
    pendingFunctionCall,  \* pendingFunctionCall
    returned              \* readStream has returned

streamVars == <<stream, pos, utf8Pending, buffer, events, inputTokens, outputTokens,
                pendingFunctionCall, returned>>

\* The parts loop of readStream on one parsed frame (src/api.ts).
VARIABLES
    frame,        \* cand.content.parts of the frame
    partIndex,    \* parts the loop has handled
    callbacks     \* which of the optional callbacks the caller registered

partVars == <<frame, partIndex, callbacks>>

\* One call of a function that awaits fetch: sendMessage (src/api.ts),
\* exchangeCode and fetchProjectId (oauth.ts), fetchAvailableModels
\* (models.ts).
VARIABLES
    callPc,       \* the await the function is suspended at, or how it ended
    fetches,      \* the calls of fetch, in order: the endpoint of each
    res,          \* the Response the latest fetch resolved with
    thrown,       \* the error the function rejected with
    resolved,     \* what the function resolved with
    answers       \* fetchProjectId: what each endpoint answers when contacted

callVars == <<callPc, fetches, res, thrown, resolved, answers>>

\* One call of stripInlineThinkingTags (src/chat.ts).
VARIABLES
    rawText,      \* the text handed in
    stripped      \* what the function returned

stripVars == <<rawText, stripped>>

\* One call of the exec tool (src/tools/exec.ts).
VARIABLES
    execPc,       \* "idle", "awaiting" the output of the command, "returned"
    timeout,      \* params.timeout: no value, or the number given
    timeoutSec,   \* the seconds the timer was set to
    elapsed,      \* seconds since startedAt
    proc,         \* the spawned process
    streams,      \* "open" until stdout and stderr have both ended
    timer,        \* "none", "armed", "fired", "cleared"
    killed,       \* let killed
    signal,       \* the AbortSignal: "none" given, "given", "aborted"
    execResult    \* what execute resolved to

execVars == <<execPc, timeout, timeoutSec, elapsed, proc, streams, timer, killed, signal,
              execResult>>

\* The parts added to the session, the login attempt and the response body.
\* One call of truncateMiddle (src/tools/exec.ts).
VARIABLES
    textLength,   \* text.length of the text handed in
    truncated     \* what the function returned

truncVars == <<textLength, truncated>>

\* The agent-session variant of the chat.
VARIABLES
    sessionBusy,  \* its isBusy
    prompts,      \* per call of session.prompt, in order: where its doSendMessage is
    statusLine,   \* what setStatusBusy or setStatusIdle showed last
    notices,      \* the system messages added to the chat log
    editorText,   \* whether the editor holds text
    lastCtrlCAt,  \* "never", or whether the last counted Ctrl+C is "recent" (< 1 s) or "old"
    exited        \* process.exit was called

sessionVars == <<sessionBusy, prompts, statusLine, notices, editorText, lastCtrlCAt, exited>>

\* The parts modelled last.
moreVars == <<truncVars, sessionVars>>

restVars == <<partVars, callVars, stripVars, execVars, moreVars>>

vars == <<loopVars, credVars, loginVars, streamVars, restVars>>

\* What the steps of one part leave alone.
OutsideChat == <<loginVars, streamVars, restVars>>

OutsideLogin == <<loopVars, tokens, now, refreshReqs, streamVars, restVars>>

OutsideStream == <<loopVars, credVars, loginVars, restVars>>

\* What a call that awaits fetch leaves alone, besides its own variables.
OutsideCall == <<partVars, stripVars, execVars, moreVars, streamVars, loopVars, credVars, loginVars>>

\* What adding a part leaves alone.
OutsideParts == <<loopVars, credVars, loginVars, callVars, stripVars, execVars, moreVars,
                  stream, pos, utf8Pending, buffer,
                  inputTokens, outputTokens, returned>>

\* ----------------------------------------------------------------- history

UserMsg(text) ==
    [role |-> "user", content |-> text, name |-> "none", error |-> FALSE]

AssistantMsg(text) ==
    [role |-> "assistant", content |-> text, name |-> "none", error |-> FALSE]

FunctionCallMsg(c) ==
    [role |-> "function_call", content |-> c.args, name |-> c.name, error |-> FALSE]

FunctionResponseMsg(c, result) ==
    [role |-> "function_response", content |-> result.output, name |-> c.name,
     error |-> result.error]

\* toContents(messages): the role and the kind of part of each entry.
toContents(messages) ==
    [i \in 1..Len(messages) |->
        IF messages[i].role = "function_call"
        THEN [role |-> "model", part |-> "functionCall"]
        ELSE IF messages[i].role = "function_response"
        THEN [role |-> "user", part |-> "functionResponse"]
        ELSE [role |-> IF messages[i].role = "assistant" THEN "model" ELSE "user",
              part |-> "text"]]

\* history.pop()
Pop(h) == IF Len(h) = 0 THEN h ELSE SubSeq(h, 1, Len(h) - 1)

\* ------------------------------------------------------------------- tools

Returned(output, error) == [kind |-> "result", output |-> output, error |-> error]

Raised(message) == [kind |-> "throw", output |-> message, error |-> FALSE]

\* execute of the exec tool: a blank or missing command is thrown; a spawn
\* failure is caught and returned; neither result carries an error flag.
execExecute(args) ==
    IF args # "ok"
    THEN {Raised("Provide a command to start.")}
    ELSE {Returned("command output", FALSE),
          Returned("Error executing command", FALSE)}

\* execute of web_search: args.query of an absent args object is a TypeError.
webSearchExecute(args) ==
    CASE args = "noargs" -> {Raised("TypeError: args is undefined")}
      [] args = "blank" -> {Returned("Error: empty search query.", TRUE)}
      [] OTHER -> {Returned("search results", FALSE),
                   Returned("Web search error", TRUE)}

\* execute of web_fetch.
webFetchExecute(args) ==
    CASE args = "noargs" -> {Raised("TypeError: args is undefined")}
      [] args = "blank" -> {Returned("Error: empty URL.", TRUE)}
      [] OTHER -> {Returned("page text", FALSE),
                   Returned("Fetch error", TRUE)}

ToolExecute(name, args) ==
    CASE name = "exec" -> execExecute(args)
      [] name = "web_search" -> webSearchExecute(args)
      [] OTHER -> webFetchExecute(args)

\* `Unknown tool: ${name}`
UnknownTool(name) ==
    CASE name = "bogus" -> "Unknown tool: bogus"
      [] name = "exec" -> "Unknown tool: exec"
      [] name = "web_search" -> "Unknown tool: web_search"
      [] OTHER -> "Unknown tool: web_fetch"

\* executeTool without the lookup check: execute is called on what the map
\* returned.
executeToolUnchecked(name, args) ==
    IF name \notin allTools
    THEN {Raised("TypeError: tool is undefined")}
    ELSE ToolExecute(name, args)

\* The outcomes of executeTool(name, args).
executeTool(name, args) ==
    IF name \notin allTools
    THEN {Returned(UnknownTool(name), TRUE)}
    ELSE ToolExecute(name, args)

\* ------------------------------------------------------------- credentials

\* The clock moves in steps of the length of the expiry buffer.
TickMs == TOKEN_EXPIRY_BUFFER_MS

\* expires_in of the token endpoint's answer, in seconds: Lifetime ticks more
\* than the buffer.
ExpiresIn == (Lifetime + 1) * 300

\* expires: Date.now() + expiresIn * 1000 - TOKEN_EXPIRY_BUFFER_MS
StoredExpiry(issuedAt, expiresIn) ==
    issuedAt + expiresIn * 1000 - TOKEN_EXPIRY_BUFFER_MS

\* The refresh token, email and project every stored credential of the model
\* carries.
RefreshToken == "1//refresh"

Email == "user@example.com"

ProjectId == "project-1"

\* TokenData as login stores it at time issuedAt.
TokenData(access, issuedAt) ==
    [access |-> access, refresh |-> RefreshToken,
     expires |-> StoredExpiry(issuedAt, ExpiresIn),
     email |-> Email, projectId |-> ProjectId]

\* getValidTokens up to its await: the stored token is returned as it is
\* while Date.now() < tokens.expires.
StoredStillValid == now < tokenFile.expires

\* What refreshAccessToken resolves with.
Refreshed(file) ==
    [access |-> file.access + 1, expires |-> StoredExpiry(now, ExpiresIn)]

\* A merge that takes the refresh result for the whole record.
UpdatedReplaced(file, refreshed) ==
    [access |-> refreshed.access, refresh |-> "rotated",
     expires |-> refreshed.expires, email |-> "none", projectId |-> "none"]

\* updated = { ...tokens, access: refreshed.access, expires: refreshed.expires }
Updated(file, refreshed) ==
    [file EXCEPT !.access = refreshed.access, !.expires = refreshed.expires]

\* -------------------------------------------------------------- agent loop

\* let totalUsage = { inputTokens: 0, outputTokens: 0 }
ZeroUsage == [inputTokens |-> 0, outputTokens |-> 0]

\* result.usage of a round-trip.
ResultUsage == [inputTokens |-> 2, outputTokens |-> 1]

\* An assignment that keeps the usage of the latest round-trip only.
PlusLatest(total, usage) == usage

\* totalUsage.inputTokens += ...; totalUsage.outputTokens += ...
Plus(total, usage) ==
    [inputTokens |-> total.inputTokens + usage.inputTokens,
     outputTokens |-> total.outputTokens + usage.outputTokens]

\* doSendMessage without the guard.
BusyGuardOff(busy) == FALSE

\* if (isBusy) return;
BusyGuard(busy) == busy

\* while (loopCount < MAX_TOOL_LOOPS)
LoopGuard(lc) == lc < MAX_TOOL_LOOPS

\* if (loopCount >= MAX_TOOL_LOOPS) after the loop
LimitReached(lc) == lc >= MAX_TOOL_LOOPS

\* The catch block without the rollback.
PopNever(h, lc) == h

\* if (loopCount === 1) history.pop() in the catch block
PopOnFailure(h, lc) == IF lc = 1 THEN Pop(h) ELSE h

\* A catch block that returns without clearing the flag.
BusyKeptOnError(how) == how = "error"

\* isBusy = false at the end of doSendMessage
BusyAfterTurn(how) == FALSE

\* The lowest slot that holds no suspended invocation.
FreeTask == CHOOSE t \in Tasks : pc[t] = "idle" /\ \A u \in Tasks : pc[u] = "idle" => t <= u

\* From the exit of the loop to the return of doSendMessage.
EndTurn(t, how, log) ==
    /\ chatLog' = IF LimitReached(loopCount[t])
                  THEN log \cup {"Tool loop limit reached"} ELSE log
    /\ isBusy' = BusyAfterTurn(how)
    /\ ended' = how
    /\ pc' = [pc EXCEPT ![t] = "idle"]
    /\ loopCount' = [loopCount EXCEPT ![t] = 0]
    /\ call' = [call EXCEPT ![t] = NoCall]

\* The head of the loop, reached from the start of the turn (lc = 0) or by
\* continue: the next round-trip begins, or the loop is left.
LoopHead(t, lc, log) ==
    IF LoopGuard(lc)
    THEN /\ loopCount' = [loopCount EXCEPT ![t] = lc + 1]
         /\ pc' = [pc EXCEPT ![t] = "send"]
         /\ sends' = sends + 1
         /\ call' = [call EXCEPT ![t] = NoCall]
         /\ chatLog' = log
         /\ UNCHANGED <<isBusy, ended>>
    ELSE /\ EndTurn(t, "exhausted", log)
         /\ UNCHANGED sends

\* The catch block, up to the await of the refresh request or to the return.
Catch(t, message) ==
    LET log == chatLog \cup {"Error"} IN
    /\ history' = PopOnFailure(history, loopCount[t])
    /\ failure' = [message |-> message, at |-> loopCount[t]]
    /\ IF ~Includes401(message)
       THEN /\ EndTurn(t, "error", log)
            /\ UNCHANGED credVars
       ELSE IF StoredStillValid
       THEN /\ EndTurn(t, "error",
                       log \cup {"Attempting token refresh", "Token refreshed"})
            /\ tokens' = [access |-> tokenFile.access, expires |-> tokenFile.expires]
            /\ UNCHANGED <<tokenFile, now, refreshReqs>>
       ELSE /\ pc' = [pc EXCEPT ![t] = "refresh"]
            /\ chatLog' = log \cup {"Attempting token refresh"}
            /\ refreshReqs' = refreshReqs + 1
            /\ UNCHANGED <<isBusy, ended, loopCount, call, tokens, tokenFile, now>>

\* runTui up to tui.start: the session state as declared.
ChatInit ==
    /\ history = <<>>
    /\ isBusy = FALSE
    /\ pc = [t \in Tasks |-> "idle"]
    /\ loopCount = [t \in Tasks |-> 0]
    /\ call = [t \in Tasks |-> NoCall]
    /\ chatLog = {}
    /\ tokens = [access |-> 0, expires |-> StoredExpiry(0, ExpiresIn)]
    /\ tokenFile = TokenData(0, 0)
    /\ now = 0
    /\ submits = 0
    /\ started = 0
    /\ ended = "none"
    /\ histAtStart = <<>>
    /\ sends = 0
    /\ fcAnswers = 0
    /\ failure = NoFailure
    /\ refreshReqs = 0
    /\ toolRaised = FALSE
    /\ otherCalls = 0
    /\ totalUsage = ZeroUsage
    /\ commands = 0

\* JavaScript null: what searchParams.get answers for an absent parameter.
null == "null"

NoUrl == [path |-> "none", code |-> null, state |-> null]

\* main of auth.ts before its first statement.
LoginInit ==
    /\ phase = "start"
    /\ trail = <<>>
    /\ settled = "pending"
    /\ callbackUrl = NoUrl
    /\ listening = FALSE
    /\ closeCalls = 0
    /\ immediates = 0
    /\ responses = <<>>
    /\ timerFired = FALSE
    /\ exchanges = 0
    /\ fileWrites = 0

\* No response body is being read.
StreamIdle ==
    /\ stream = <<>>
    /\ pos = 0
    /\ utf8Pending = <<>>
    /\ buffer = <<>>
    /\ events = <<>>
    /\ inputTokens = 0
    /\ outputTokens = 0
    /\ pendingFunctionCall = NoCall
    /\ returned = FALSE

\* The callbacks doSendMessage hands to sendMessage.
Registered == [onThinking |-> TRUE, onFunctionCall |-> TRUE]

\* No frame is being walked.
PartsIdle ==
    /\ frame = <<>>
    /\ partIndex = 0
    /\ callbacks = Registered

NoResponse == [status |-> 0, body |-> null]

NoError == [message |-> "none"]

NoResult == [kind |-> "none"]

\* The function has not been called.
CallIdle ==
    /\ callPc = "idle"
    /\ fetches = <<>>
    /\ res = NoResponse
    /\ thrown = NoError
    /\ resolved = NoResult
    /\ answers = <<>>

\* stripInlineThinkingTags has not been called.
StripIdle ==
    /\ rawText = <<>>
    /\ stripped = NoResult

\* No process was spawned.
NoProc == [state |-> "none", signalled |-> FALSE, exitedAt |-> 0, kills |-> 0, exitCode |-> {}]

\* The exec tool has not been called.
ExecIdle ==
    /\ execPc = "idle"
    /\ timeout = {}
    /\ timeoutSec = 0
    /\ elapsed = 0
    /\ proc = NoProc
    /\ streams = "open"
    /\ timer = "none"
    /\ killed = FALSE
    /\ signal = "none"
    /\ execResult = NoResult

\* truncateMiddle has not been called.
TruncateIdle ==
    /\ textLength = 0
    /\ truncated = NoResult

\* The agent-session chat before the first key press.
SessionIdle ==
    /\ sessionBusy = FALSE
    /\ prompts = <<>>
    /\ statusLine = "ready"
    /\ notices = {}
    /\ editorText = FALSE
    /\ lastCtrlCAt = "never"
    /\ exited = FALSE

\* Every part but the named one is in its initial state.
Elsewhere(part) ==
    /\ IF part = "parts" THEN TRUE ELSE PartsIdle
    /\ IF part = "send" THEN TRUE ELSE CallIdle
    /\ IF part = "strip" THEN TRUE ELSE StripIdle
    /\ IF part = "exec" THEN TRUE ELSE ExecIdle
    /\ IF part = "truncate" THEN TRUE ELSE TruncateIdle
    /\ IF part = "session" THEN TRUE ELSE SessionIdle

Init == ChatInit /\ LoginInit /\ StreamIdle /\ Elsewhere("none")

\* editor.onSubmit with message text: doSendMessage up to its first await.
Submit(text) ==
    /\ submits < MaxSubmits
    /\ submits' = submits + 1
    /\ IF BusyGuard(isBusy)
       THEN UNCHANGED <<history, isBusy, pc, loopCount, call, chatLog, started,
                        ended, histAtStart, sends, fcAnswers, failure,
                        toolRaised, otherCalls, credVars>>
       ELSE /\ Len(history) <= MaxPriorHistory
            /\ \E t \in Tasks : pc[t] = "idle"
            /\ isBusy' = TRUE
            /\ history' = Append(history, UserMsg(text))
            /\ histAtStart' = history
            /\ started' = started + 1
            /\ ended' = "running"
            /\ fcAnswers' = 0
            /\ failure' = NoFailure
            /\ refreshReqs' = 0
            /\ toolRaised' = FALSE
            /\ loopCount' = [loopCount EXCEPT ![FreeTask] = 1]
            /\ pc' = [pc EXCEPT ![FreeTask] = "send"]
            /\ sends' = 1
            /\ chatLog' = {}
            /\ UNCHANGED <<call, tokens, tokenFile, now, otherCalls>>
    /\ UNCHANGED <<totalUsage, commands, OutsideChat>>

\* sendMessage resolves without a function call: the turn is finalized.
SendReturnsText(t) ==
    /\ pc[t] = "send"
    /\ history' = Append(history, AssistantMsg("answer"))
    /\ EndTurn(t, "text", chatLog)
    /\ UNCHANGED <<submits, started, histAtStart, sends, fcAnswers, failure, toolRaised,
                   otherCalls, credVars>>
    /\ totalUsage' = Plus(totalUsage, ResultUsage)
    /\ UNCHANGED <<commands, OutsideChat>>

\* sendMessage resolves with a function call: it is pushed and executeTool
\* is awaited.
SendReturnsCall(t, c) ==
    /\ pc[t] = "send"
    /\ \/ c = DefaultCall /\ UNCHANGED otherCalls
       \/ /\ c # DefaultCall
          /\ loopCount[t] \in OtherRounds
          /\ otherCalls < MaxOtherCalls
          /\ otherCalls' = otherCalls + 1
    /\ history' = Append(history, FunctionCallMsg(c))
    /\ call' = [call EXCEPT ![t] = c]
    /\ pc' = [pc EXCEPT ![t] = "tool"]
    /\ fcAnswers' = fcAnswers + 1
    /\ UNCHANGED <<isBusy, loopCount, chatLog, submits, started, ended, histAtStart,
                   sends, failure, toolRaised, credVars>>
    /\ totalUsage' = Plus(totalUsage, ResultUsage)
    /\ UNCHANGED <<commands, OutsideChat>>

\* sendMessage rejects.
SendFails(t, message) ==
    /\ pc[t] = "send"
    /\ Catch(t, message)
    /\ UNCHANGED <<submits, started, histAtStart, sends, fcAnswers, toolRaised,
                   otherCalls>>
    /\ UNCHANGED <<totalUsage, commands, OutsideChat>>

\* executeTool resolves: the response is pushed and the loop continues.
ToolReturns(t) ==
    \E r \in executeTool(call[t].name, call[t].args) :
    /\ pc[t] = "tool"
    /\ r.kind = "result"
    /\ \/ ~(call[t] = DefaultCall /\ r.error) /\ UNCHANGED otherCalls
       \/ /\ call[t] = DefaultCall /\ r.error
          /\ loopCount[t] \in OtherRounds
          /\ otherCalls < MaxOtherCalls
          /\ otherCalls' = otherCalls + 1
    /\ history' = Append(history, FunctionResponseMsg(call[t], r))
    /\ LoopHead(t, loopCount[t], chatLog)
    /\ UNCHANGED <<submits, started, histAtStart, fcAnswers, failure, toolRaised,
                   credVars>>
    /\ UNCHANGED <<totalUsage, commands, OutsideChat>>

\* executeTool rejects: the error reaches the catch block of the loop.
ToolThrows(t) ==
    \E r \in executeTool(call[t].name, call[t].args) :
    /\ pc[t] = "tool"
    /\ r.kind = "throw"
    /\ toolRaised' = TRUE
    /\ Catch(t, r.output)
    /\ UNCHANGED <<submits, started, histAtStart, sends, fcAnswers, otherCalls>>
    /\ UNCHANGED <<totalUsage, commands, OutsideChat>>

\* refreshAccessToken resolves: the token is saved and taken over.
RefreshReturns(t) ==
    /\ pc[t] = "refresh"
    /\ tokenFile' = Updated(tokenFile, Refreshed(tokenFile))
    /\ tokens' = [access |-> tokenFile'.access, expires |-> tokenFile'.expires]
    /\ EndTurn(t, "error", chatLog \cup {"Token refreshed"})
    /\ UNCHANGED <<history, submits, started, histAtStart, sends, fcAnswers, failure,
                   toolRaised, otherCalls, now, refreshReqs>>
    /\ UNCHANGED <<totalUsage, commands, OutsideChat>>

\* refreshAccessToken rejects: getValidTokens returns null.
RefreshFails(t) ==
    /\ pc[t] = "refresh"
    /\ EndTurn(t, "error", chatLog \cup {"Refresh failed"})
    /\ UNCHANGED <<history, submits, started, histAtStart, sends, fcAnswers, failure,
                   toolRaised, otherCalls, credVars>>
    /\ UNCHANGED <<totalUsage, commands, OutsideChat>>

\* Time passes.
Tick ==
    /\ now < MaxNow * TickMs
    /\ now' = now + TickMs
    /\ UNCHANGED <<loopVars, tokens, tokenFile, refreshReqs>>
    /\ UNCHANGED OutsideChat

Next ==
    \/ \E text \in UserTexts : Submit(text)
    \/ \E t \in Tasks : SendReturnsText(t)
    \/ \E t \in Tasks, c \in Calls : SendReturnsCall(t, c)
    \/ \E t \in Tasks, m \in TransportErrors : SendFails(t, m)
    \/ \E t \in Tasks : ToolReturns(t)
    \/ \E t \in Tasks : ToolThrows(t)
    \/ \E t \in Tasks : RefreshReturns(t)
    \/ \E t \in Tasks : RefreshFails(t)
    \/ Tick

Spec == Init /\ [][Next]_vars

\* Every turn step that is due happens: a pending transport call, tool
\* execution or refresh request resolves or rejects.
TurnStep ==
    \E t \in Tasks :
        \/ SendReturnsText(t)
        \/ \E m \in TransportErrors : SendFails(t, m)
        \/ \E c \in Calls : SendReturnsCall(t, c)
        \/ ToolReturns(t)
        \/ ToolThrows(t)
        \/ RefreshReturns(t)
        \/ RefreshFails(t)

FairSpec == Spec /\ WF_vars(TurnStep)

\* ---------------------------------------------------------- slash commands

\* What the user types after the slash.
CommandInputs == {"/clear", "/CLEAR ", "/history", "/nope"}

\* input.toLowerCase().trim()
LowerTrim(input) ==
    CASE input = "/CLEAR " -> "/clear"
      [] OTHER -> input

\* The system line handleCommand adds for a command other than /clear.
CommandNotice(cmd) ==
    IF cmd = "/history" THEN "history summary" ELSE "Unknown command"

\* editor.onSubmit with a value that starts with a slash: handleCommand.
\* (/quit, /model and /thinking touch nothing the model holds.)
Command(input) ==
    /\ commands < MaxCommands
    /\ commands' = commands + 1
    /\ IF LowerTrim(input) = "/clear"
       THEN /\ history' = <<>>
            /\ totalUsage' = ZeroUsage
            /\ chatLog' = {"Conversation cleared."}
       ELSE /\ chatLog' = chatLog \cup {CommandNotice(LowerTrim(input))}
            /\ UNCHANGED <<history, totalUsage>>
    /\ UNCHANGED <<isBusy, pc, loopCount, call, submits, started, ended, histAtStart,
                   sends, fcAnswers, failure, toolRaised, otherCalls, credVars,
                   OutsideChat>>

CommandNext ==
    \/ Next
    \/ \E input \in CommandInputs : Command(input)

CommandSpec == Init /\ [][CommandNext]_vars

\* The steps that bear on the cumulative usage: round-trips that succeed
\* with text or with a call, round-trips that fail, and /clear at any moment.
UsageNext ==
    \/ \E text \in UserTexts : Submit(text)
    \/ \E t \in Tasks : SendReturnsText(t)
    \/ \E t \in Tasks : SendReturnsCall(t, DefaultCall)
    \/ \E t \in Tasks : SendFails(t, "API error (HTTP 500)")
    \/ \E t \in Tasks : ToolReturns(t)
    \/ Command("/clear")

UsageSpec == Init /\ [][UsageNext]_vars

\* -------------------------------------------------------------- login flow

\* state = randomBytes(16).toString("hex"): lower-case hex digits.
GeneratedState == "9f3a"

\* Requests that reach the server: path "" is a request without a URL; the
\* callback path comes with every combination of a code (absent, empty,
\* present) and a state (absent, the generated one, the generated one in
\* upper case, another one).
Requests ==
    {[path |-> "", code |-> null, state |-> null],
     [path |-> "/favicon.ico", code |-> null, state |-> null]}
    \cup [path : {"/oauth-callback"}, code : {null, "", "4/0AbCd"},
          state : {null, GeneratedState, "9F3A", "0000"}]

\* The status the request handler answers with.
StatusOf(req) ==
    IF req.path = "" THEN 400
    ELSE IF req.path # "/oauth-callback" THEN 404
    ELSE 200

\* resolveCallback without the settled flag.
ResolveCallbackUnguarded(was, url, req) == [settled |-> "resolved", url |-> req]

\* resolveCallback(url): if (settled) return; settled = true; resolve(url)
ResolveCallback(was, url, req) ==
    IF was # "pending"
    THEN [settled |-> was, url |-> url]
    ELSE [settled |-> "resolved", url |-> req]

\* A check of the code that lets every callback through.
HasCodeAlways(code) == TRUE

\* if (!code) fails: the parameter is present and not empty.
HasCode(code) == code # null /\ code # ""

\* A comparison of the states that ignores case.
StateMatchesIgnoringCase(returnedState, state) ==
    LET Lower(x) == IF x = "9F3A" THEN "9f3a" ELSE x
    IN  Lower(returnedState) = Lower(state)

\* returnedState !== state fails.
StateMatches(returnedState, state) == returnedState = state

\* The stages of a login that succeeds, in order.
LoginOrder == <<"PkceGenerated", "ListenerStarted", "BrowserOpened", "AwaitingCallback",
                "Exchanging", "Enriching", "Persisted">>

\* main up to await startCallbackServer(): PKCE pair, state and URL are
\* generated, the timer is set and listen is called.
StartLogin ==
    /\ phase = "start"
    /\ phase' = "listen"
    /\ trail' = <<"PkceGenerated">>
    /\ UNCHANGED <<settled, callbackUrl, listening, closeCalls, immediates, responses,
                   timerFired, exchanges, fileWrites, tokenFile, OutsideLogin>>

\* The listen callback: the server promise resolves, main opens the browser
\* and awaits waitForCallback(), which throws at once if the timer has fired.
ListenOk ==
    /\ phase = "listen"
    /\ listening' = TRUE
    /\ trail' = trail \o <<"ListenerStarted", "BrowserOpened", "AwaitingCallback">>
    /\ phase' = IF settled = "rejected" THEN "failed" ELSE "wait"
    /\ UNCHANGED <<settled, callbackUrl, closeCalls, immediates, responses, timerFired,
                   exchanges, fileWrites, tokenFile, OutsideLogin>>

\* The server emits error before it listens: main exits with status 1.
ListenError ==
    /\ phase = "listen"
    /\ phase' = "failed"
    /\ UNCHANGED <<trail, settled, callbackUrl, listening, closeCalls, immediates,
                   responses, timerFired, exchanges, fileWrites, tokenFile,
                   OutsideLogin>>

\* The request handler, and for the request that resolves the wait the
\* continuation of main up to await callbackServer.close(). Requests arrive
\* while the server listens and, on connections made before, until it has
\* closed.
Request(req) ==
    /\ phase \in {"wait", "close"}
    /\ Len(responses) < MaxRequests
    /\ responses' = Append(responses, [status |-> StatusOf(req), url |-> req])
    /\ IF StatusOf(req) # 200
       THEN UNCHANGED <<phase, settled, callbackUrl, listening, closeCalls, immediates>>
       ELSE /\ settled' = ResolveCallback(settled, callbackUrl, req).settled
            /\ callbackUrl' = ResolveCallback(settled, callbackUrl, req).url
            /\ immediates' = immediates + 1
            /\ IF phase = "wait"
               THEN /\ phase' = "close"
                    /\ closeCalls' = closeCalls + 1
                    /\ listening' = FALSE
               ELSE UNCHANGED <<phase, closeCalls, listening>>
    /\ UNCHANGED <<trail, timerFired, exchanges, fileWrites, tokenFile, OutsideLogin>>

\* The timeout callback: rejectCallback. A main that awaits the callback
\* throws; main().catch exits with status 1.
Timeout ==
    /\ ~timerFired
    /\ phase \in {"listen", "wait", "close", "exchange", "email", "project"}
    /\ timerFired' = TRUE
    /\ settled' = IF settled = "pending" THEN "rejected" ELSE settled
    /\ phase' = IF phase = "wait" THEN "failed" ELSE phase
    /\ UNCHANGED <<trail, callbackUrl, listening, closeCalls, immediates, responses,
                   exchanges, fileWrites, tokenFile, OutsideLogin>>

\* setImmediate(() => server.close())
ImmediateClose ==
    /\ immediates > 0
    /\ phase # "failed"
    /\ immediates' = immediates - 1
    /\ closeCalls' = closeCalls + 1
    /\ listening' = FALSE
    /\ UNCHANGED <<phase, trail, settled, callbackUrl, responses, timerFired, exchanges,
                   fileWrites, tokenFile, OutsideLogin>>

\* The callback of close: main checks code and state and calls exchangeCode,
\* or exits with status 1.
CloseDone ==
    /\ phase = "close"
    /\ IF HasCode(callbackUrl.code) /\ StateMatches(callbackUrl.state, GeneratedState)
       THEN /\ phase' = "exchange"
            /\ exchanges' = exchanges + 1
            /\ trail' = Append(trail, "Exchanging")
       ELSE /\ phase' = "failed"
            /\ UNCHANGED <<exchanges, trail>>
    /\ UNCHANGED <<settled, callbackUrl, listening, closeCalls, immediates, responses,
                   timerFired, fileWrites, tokenFile, OutsideLogin>>

\* exchangeCode resolves: main awaits fetchUserEmail.
ExchangeOk ==
    /\ phase = "exchange"
    /\ phase' = "email"
    /\ trail' = Append(trail, "Enriching")
    /\ UNCHANGED <<settled, callbackUrl, listening, closeCalls, immediates, responses,
                   timerFired, exchanges, fileWrites, tokenFile, OutsideLogin>>

\* exchangeCode rejects: main().catch exits with status 1.
ExchangeFails ==
    /\ phase = "exchange"
    /\ phase' = "failed"
    /\ UNCHANGED <<trail, settled, callbackUrl, listening, closeCalls, immediates,
                   responses, timerFired, exchanges, fileWrites, tokenFile,
                   OutsideLogin>>

\* fetchUserEmail resolves, with the email or with undefined: main awaits
\* fetchProjectId.
EmailReturns ==
    /\ phase = "email"
    /\ phase' = "project"
    /\ UNCHANGED <<trail, settled, callbackUrl, listening, closeCalls, immediates,
                   responses, timerFired, exchanges, fileWrites, tokenFile,
                   OutsideLogin>>

\* fetchProjectId resolves, with the project of an endpoint or the default:
\* saveTokens. (email is what fetchUserEmail resolved with.)
ProjectReturns(email, projectId) ==
    /\ phase = "project"
    /\ phase' = "persisted"
    /\ tokenFile' = [TokenData(1, now) EXCEPT !.email = email, !.projectId = projectId]
    /\ fileWrites' = fileWrites + 1
    /\ trail' = Append(trail, "Persisted")
    /\ UNCHANGED <<settled, callbackUrl, listening, closeCalls, immediates, responses,
                   timerFired, exchanges, OutsideLogin>>

LoginNext ==
    \/ StartLogin
    \/ ListenOk
    \/ ListenError
    \/ \E req \in Requests : Request(req)
    \/ Timeout
    \/ ImmediateClose
    \/ CloseDone
    \/ ExchangeOk
    \/ ExchangeFails
    \/ EmailReturns
    \/ \E email \in {Email, "undefined"}, projectId \in {ProjectId, "default-project"} :
          ProjectReturns(email, projectId)

LoginSpec == Init /\ [][LoginNext]_vars

\* The timer runs out while the process lives.
FairLoginSpec == LoginSpec /\ WF_vars(Timeout)

\* ---------------------------------------------------------- stream decoder

\* A body is a sequence of bytes. The bytes of "data: ", of white space and of
\* the line feed stand for themselves; "C3" and "A9" are the two bytes of one
\* two-byte character; every other byte stands for a run of bytes of a JSON
\* payload: "{" and "}" open and close the chunk with its response, "t" and
\* "h" open a text part and a text part with thought: true (the next character
\* is its text), "f" is a functionCall part, "p0".."p2" and "c0".."c2" are
\* promptTokenCount and candidatesTokenCount of usageMetadata.
DataPrefix == <<"d", "a", "t", "a", ":", " ">>

\* The lines a body is made of.
TextLine == DataPrefix \o <<"{", "t", "C3", "A9", "}">>

ThoughtLine == DataPrefix \o <<"{", "h", "x", "}", "\r">>

CallLine == DataPrefix \o <<"{", "f", "c0", "}">>

UsageLine == DataPrefix \o <<"{", "p2", "c1", "}">>

LaterUsageLine == DataPrefix \o <<"{", "p1", "}">>

MalformedLine == DataPrefix \o <<"{", "t", "x">>

DoneLine == DataPrefix \o <<"[DONE]">>

BlankLine == <<>>

NoSpaceLine == <<"d", "a", "t", "a", ":", "{", "f", "}">>

LineKinds == {TextLine, ThoughtLine, CallLine, UsageLine, LaterUsageLine,
              MalformedLine, DoneLine, BlankLine, NoSpaceLine}

\* What may follow the last line feed of a body.
UnterminatedLine == DataPrefix \o <<"{", "f", "p1", "}">>

Tails == {<<>>, UnterminatedLine}

RECURSIVE Join(_)
\* The lines, each ended by a line feed.
Join(lines) ==
    IF lines = <<>> THEN <<>> ELSE Head(lines) \o <<"\n">> \o Join(Tail(lines))

Bodies ==
    {Join(lines) \o tail :
        lines \in UNION {[1..n -> LineKinds] : n \in 0..MaxLines}, tail \in Tails}

RECURSIVE Utf8(_, _, _)
\* The UTF-8 decoder: held is the lead byte read and not yet completed, out
\* the characters decoded so far.
Utf8(held, bytes, out) ==
    IF bytes = <<>> THEN [chars |-> out, held |-> held]
    ELSE IF held # <<>>
    THEN IF Head(bytes) = "A9"
         THEN Utf8(<<>>, Tail(bytes), Append(out, "e-acute"))
         ELSE Utf8(<<>>, bytes, Append(out, "U+FFFD"))
    ELSE IF Head(bytes) = "C3" THEN Utf8(<<"C3">>, Tail(bytes), out)
    ELSE IF Head(bytes) = "A9" THEN Utf8(<<>>, Tail(bytes), Append(out, "U+FFFD"))
    ELSE Utf8(<<>>, Tail(bytes), Append(out, Head(bytes)))

\* decoder.decode(value): a lead byte at the end of the chunk is decoded at
\* once, as the replacement character.
decodeUnstreamed(held, value) ==
    LET d == Utf8(<<>>, value, <<>>)
    IN  [chars |-> IF d.held = <<>> THEN d.chars ELSE Append(d.chars, "U+FFFD"),
         held |-> <<>>]

\* decoder.decode(value, { stream: true })
decode(held, value) == Utf8(held, value, <<>>)

RECURSIVE split(_, _, _)
\* buffer.split("\n"): the lines ended by a line feed, and what follows the
\* last line feed.
split(chars, line, lines) ==
    IF chars = <<>> THEN [lines |-> lines, rest |-> line]
    ELSE IF Head(chars) = "\n" THEN split(Tail(chars), <<>>, Append(lines, line))
    ELSE split(Tail(chars), Append(line, Head(chars)), lines)

\* line.startsWith("data: ")
startsWith(line, prefix) ==
    Len(line) >= Len(prefix) /\ SubSeq(line, 1, Len(prefix)) = prefix

RECURSIVE trim(_)
\* String.prototype.trim
trim(chars) ==
    IF chars = <<>> THEN chars
    ELSE IF Head(chars) \in {" ", "\r"} THEN trim(Tail(chars))
    ELSE IF chars[Len(chars)] \in {" ", "\r"} THEN trim(SubSeq(chars, 1, Len(chars) - 1))
    ELSE chars

\* What JSON.parse throws on.
SyntaxError == [ok |-> FALSE, parts |-> <<>>, promptTokenCount |-> {},
                candidatesTokenCount |-> {}]

\* The number a counter carries.
CountOf(token) ==
    CASE token \in {"p0", "c0"} -> 0
      [] token \in {"p1", "c1"} -> 1
      [] OTHER -> 2

RECURSIVE Members(_, _)
\* The members of the response: its parts in order, and the counters of
\* usageMetadata (an absent counter is the empty set).
Members(items, chunk) ==
    IF items = <<>> THEN chunk
    ELSE IF Head(items) \in {"t", "h"}
    THEN IF Len(items) >= 2 /\ items[2] \in {"x", "e-acute", "U+FFFD"}
         THEN Members(SubSeq(items, 3, Len(items)),
                      [chunk EXCEPT !.parts =
                           Append(@, [functionCall |-> NoCall, text |-> {items[2]},
                                      thought |-> Head(items) = "h"])])
         ELSE SyntaxError
    ELSE IF Head(items) = "f"
    THEN Members(Tail(items),
                 [chunk EXCEPT !.parts =
                      Append(@, [functionCall |-> [name |-> "exec", args |-> "ok"],
                                 text |-> {}, thought |-> FALSE])])
    ELSE IF Head(items) \in {"p0", "p1", "p2"}
    THEN Members(Tail(items),
                 [chunk EXCEPT !.promptTokenCount = {CountOf(Head(items))}])
    ELSE IF Head(items) \in {"c0", "c1", "c2"}
    THEN Members(Tail(items),
                 [chunk EXCEPT !.candidatesTokenCount = {CountOf(Head(items))}])
    ELSE SyntaxError

\* JSON.parse(payload)
JSONParse(payload) ==
    IF Len(payload) >= 2 /\ Head(payload) = "{" /\ payload[Len(payload)] = "}"
    THEN Members(SubSeq(payload, 2, Len(payload) - 1),
                 [ok |-> TRUE, parts |-> <<>>, promptTokenCount |-> {},
                  candidatesTokenCount |-> {}])
    ELSE SyntaxError

\* A capture that keeps the largest value seen.
CaptureLargest(current, carried) ==
    IF carried = {} THEN current
    ELSE LET n == CHOOSE m \in carried : TRUE IN IF n > current THEN n ELSE current

\* if (usage.promptTokenCount !== undefined) inputTokens = usage.promptTokenCount
\* (and the same for candidatesTokenCount and outputTokens)
Capture(current, carried) ==
    IF carried = {} THEN current ELSE CHOOSE m \in carried : TRUE

\* A catch block that starts the counters and the function call afresh.
SkipLineResets(loc) ==
    [loc EXCEPT !.inputTokens = 0, !.outputTokens = 0, !.pendingFunctionCall = NoCall]

\* catch { } around JSON.parse and what follows it
SkipLine(loc) == loc

\* The events of a part whatever the caller registered.
toThinkingUnregistered(part, cb) == part.thought

\* part.thought && callbacks.onThinking
toThinking(part, cb) == part.thought /\ cb.onThinking

\* A loop body that keeps the first function call of the response.
PartFirstCallKept(loc, part, cb) ==
    IF part.functionCall # NoCall
    THEN [loc EXCEPT !.pendingFunctionCall =
                         IF @ = NoCall THEN part.functionCall ELSE @,
                     !.events = IF cb.onFunctionCall
                                THEN Append(@, [on |-> "functionCall",
                                                val |-> part.functionCall.name])
                                ELSE @]
    ELSE loc

\* The body of for (const part of cand.content?.parts ?? []): text is the
\* set of the values of part.text, empty when the part has none.
Part(loc, part, cb) ==
    IF part.functionCall # NoCall
    THEN [loc EXCEPT !.pendingFunctionCall = part.functionCall,
                     !.events = IF cb.onFunctionCall
                                THEN Append(@, [on |-> "functionCall",
                                                val |-> part.functionCall.name])
                                ELSE @]
    ELSE IF part.text \in {{}, {""}} THEN loc
    ELSE LET text == CHOOSE chars \in part.text : TRUE
         IN  IF toThinking(part, cb)
             THEN [loc EXCEPT !.events = Append(@, [on |-> "thinking", val |-> text])]
             ELSE [loc EXCEPT !.events = Append(@, [on |-> "text", val |-> text])]

RECURSIVE Parts(_, _)
\* for (const part of cand.content?.parts ?? [])
Parts(loc, parts) ==
    IF parts = <<>> THEN loc ELSE Parts(Part(loc, Head(parts), callbacks), Tail(parts))

\* The body of for (const line of lines).
Line(loc, line) ==
    IF ~startsWith(line, DataPrefix) THEN loc
    ELSE LET payload == trim(SubSeq(line, Len(DataPrefix) + 1, Len(line)))
             chunk == JSONParse(payload)
             after == Parts(loc, chunk.parts)
         IN  IF payload = <<>> \/ payload = <<"[DONE]">> THEN loc
             ELSE IF ~chunk.ok THEN SkipLine(loc)
             ELSE [after EXCEPT
                     !.inputTokens = Capture(@, chunk.promptTokenCount),
                     !.outputTokens = Capture(@, chunk.candidatesTokenCount)]

RECURSIVE Lines(_, _)
\* for (const line of lines)
Lines(loc, lines) ==
    IF lines = <<>> THEN loc ELSE Lines(Line(loc, Head(lines)), Tail(lines))

\* The locals of readStream before the first read.
NoLocals ==
    [held |-> <<>>, buffer |-> <<>>, events |-> <<>>, inputTokens |-> 0,
     outputTokens |-> 0, pendingFunctionCall |-> NoCall]

\* The locals of readStream.
Locals ==
    [held |-> utf8Pending, buffer |-> buffer, events |-> events,
     inputTokens |-> inputTokens, outputTokens |-> outputTokens,
     pendingFunctionCall |-> pendingFunctionCall]

\* The body of while (true) for a chunk value: decode, split, keep what
\* follows the last line feed, handle the lines.
ReadChunk(loc, value) ==
    LET decoded == decode(loc.held, value)
        parted == split(loc.buffer \o decoded.chars, <<>>, <<>>)
    IN  [Lines(loc, parted.lines) EXCEPT !.held = decoded.held,
                                         !.buffer = parted.rest]

\* readStream is called with a body.
StreamInit ==
    /\ ChatInit
    /\ LoginInit
    /\ stream \in Bodies
    /\ pos = 0
    /\ utf8Pending = <<>>
    /\ buffer = <<>>
    /\ events = <<>>
    /\ inputTokens = 0
    /\ outputTokens = 0
    /\ pendingFunctionCall = NoCall
    /\ returned = FALSE
    /\ Elsewhere("none")

\* reader.read() resolves with the next n bytes of the body.
Read(n) ==
    /\ ~returned
    /\ n <= Len(stream) - pos
    /\ \E loc \in {ReadChunk(Locals, SubSeq(stream, pos + 1, pos + n))} :
           /\ utf8Pending' = loc.held
           /\ buffer' = loc.buffer
           /\ events' = loc.events
           /\ inputTokens' = loc.inputTokens
           /\ outputTokens' = loc.outputTokens
           /\ pendingFunctionCall' = loc.pendingFunctionCall
    /\ pos' = pos + n
    /\ UNCHANGED <<stream, returned, OutsideStream>>

\* A loop that handles what is left in the buffer as a last line when the
\* body is done.
doneFlushed(loc) == [Lines(loc, <<loc.buffer>>) EXCEPT !.buffer = <<>>]

\* if (done) break: the loop is left with its locals as they are.
done(loc) == loc

\* reader.read() resolves with done: readStream returns.
Return ==
    /\ ~returned
    /\ pos = Len(stream)
    /\ returned' = TRUE
    /\ \E loc \in {done(Locals)} :
           /\ utf8Pending' = loc.held
           /\ buffer' = loc.buffer
           /\ events' = loc.events
           /\ inputTokens' = loc.inputTokens
           /\ outputTokens' = loc.outputTokens
           /\ pendingFunctionCall' = loc.pendingFunctionCall
    /\ UNCHANGED <<stream, pos, OutsideStream>>

\* reader.read() resolves with all that is left of the body.
ReadRest ==
    /\ pos < Len(stream)
    /\ Read(Len(stream) - pos)

StreamNext ==
    \/ \E n \in 1..MaxChunk : Read(n)
    \/ ReadRest
    \/ Return

StreamSpec == StreamInit /\ [][StreamNext]_vars

\* ------------------------------------------------------ parts of one frame

\* The parts a frame may hold: with or without a functionCall, with no text,
\* an empty text or a text, flagged as thought or not.
PartKinds ==
    [functionCall : {NoCall, [name |-> "exec", args |-> "ok"], DefaultCall},
     text : {{}, {""}, {"x"}},
     thought : BOOLEAN]

\* readStream has parsed one frame and enters the loop over its parts.
PartsInit ==
    /\ ChatInit
    /\ LoginInit
    /\ StreamIdle
    /\ frame \in UNION {[1..n -> PartKinds] : n \in 0..MaxParts}
    /\ partIndex = 0
    /\ callbacks \in [onThinking : BOOLEAN, onFunctionCall : BOOLEAN]
    /\ Elsewhere("parts")

\* One iteration of the loop over the parts.
NextPart ==
    /\ partIndex < Len(frame)
    /\ \E loc \in {Part(Locals, frame[partIndex + 1], callbacks)} :
           /\ events' = loc.events
           /\ pendingFunctionCall' = loc.pendingFunctionCall
    /\ partIndex' = partIndex + 1
    /\ UNCHANGED <<frame, callbacks, OutsideParts>>

PartsSpec == PartsInit /\ [][NextPart]_vars

\* ------------------------------------------- one round-trip of the loop

\* The first round-trip of a turn with the parts of its response: the
\* callbacks are the ones doSendMessage registers.
RoundInit ==
    /\ PartsInit
    /\ callbacks = Registered

\* The message is submitted and sendMessage is awaited.
RoundStarts ==
    /\ started = 0
    /\ \E text \in UserTexts : Submit(text)

\* readStream handles the next part of the response.
RoundPart ==
    /\ \E t \in Tasks : pc[t] = "send" /\ loopCount[t] = 1
    /\ NextPart

\* readStream returns pendingFunctionCall as result.functionCall and the
\* loop takes the function call branch.
RoundReturnsCall(t) ==
    /\ partIndex = Len(frame)
    /\ loopCount[t] = 1
    /\ pendingFunctionCall # NoCall
    /\ SendReturnsCall(t, pendingFunctionCall)

\* readStream returns without a function call and the loop finalizes.
RoundReturnsText(t) ==
    /\ partIndex = Len(frame)
    /\ loopCount[t] = 1
    /\ pendingFunctionCall = NoCall
    /\ SendReturnsText(t)

RoundNext ==
    \/ RoundStarts
    \/ RoundPart
    \/ \E t \in Tasks : RoundReturnsCall(t)
    \/ \E t \in Tasks : RoundReturnsText(t)
    \/ \E t \in Tasks : ToolReturns(t)

RoundSpec == RoundInit /\ [][RoundNext]_vars

\* ------------------------------------------------------------- sendMessage

\* What the endpoint may answer: a status, and a body (null for a response
\* without one). The body of a response that is not ok is read as text.
Responses ==
    [status : {200, 204, 401, 500},
     body : {null, <<>>, Join(<<TextLine>>), Join(<<CallLine, UsageLine>>),
             Join(<<ThoughtLine>>) \o MalformedLine}]

\* A check of the status that lets every response through.
okAlways(status) == TRUE

\* res.ok
ok(status) == status \in 200..299

\* new Error(`API error (HTTP ${res.status}): ${errBody}`)
ApiError(status, errBody) ==
    [message |-> "API error", status |-> status, body |-> errBody]

\* new Error("API returned an empty response body.")
EmptyBodyError == [message |-> "API returned an empty response body."]

\* What fetch rejects with when no response arrives.
NetworkError == [message |-> "fetch failed"]

\* res.text()
text(body) == IF body = null THEN <<>> ELSE body

SendInit == ChatInit /\ LoginInit /\ StreamIdle /\ Elsewhere("none")

\* sendMessage is called: it builds the request and calls fetch.
SendMessage ==
    /\ callPc = "idle"
    /\ callPc' = "fetch"
    /\ fetches' = Append(fetches, "streamGenerateContent")
    /\ UNCHANGED <<res, thrown, resolved, answers, OutsideCall>>

\* fetch resolves with a response: up to the next await, the throw or the
\* call of readStream.
FetchResolves(r) ==
    /\ callPc = "fetch"
    /\ res' = r
    /\ IF ~ok(r.status)
       THEN callPc' = "text" /\ UNCHANGED <<thrown, stream>>
       ELSE IF r.body = null
       THEN callPc' = "threw" /\ thrown' = EmptyBodyError /\ UNCHANGED stream
       ELSE callPc' = "stream" /\ stream' = r.body /\ UNCHANGED thrown
    /\ UNCHANGED <<fetches, resolved, answers, pos, utf8Pending, buffer, events,
                   inputTokens, outputTokens,
                   pendingFunctionCall, returned, partVars, stripVars, execVars, moreVars,
                   loopVars, credVars,
                   loginVars>>

\* fetch rejects.
FetchRejects ==
    /\ callPc = "fetch"
    /\ callPc' = "threw"
    /\ thrown' = NetworkError
    /\ UNCHANGED <<fetches, res, resolved, answers, OutsideCall>>

\* res.text() resolves with the body of a response that is not ok.
TextResolves ==
    /\ callPc = "text"
    /\ callPc' = "threw"
    /\ thrown' = ApiError(res.status, text(res.body))
    /\ UNCHANGED <<fetches, res, resolved, answers, OutsideCall>>

\* readStream(res.body, callbacks) at work.
SendNext ==
    \/ SendMessage
    \/ \E r \in Responses : FetchResolves(r)
    \/ FetchRejects
    \/ TextResolves
    \/ callPc = "stream" /\ \E n \in 1..MaxChunk : Read(n)
    \/ callPc = "stream" /\ ReadRest
    \/ callPc = "stream" /\ Return

SendSpec == SendInit /\ [][SendNext]_vars

\* ------------------------------------------------------------ exchangeCode

\* What a field of the answer may hold: the set of its values, empty when the
\* field is absent.
TokenValues == {{}, {<<>>}, {<<" ">>}, {<<"a">>}, {<<" ", "b", "\r">>}}

\* The body of an answer that is not JSON.
NotJson == [syntax |-> "error"]

\* What the token endpoint may answer.
TokenAnswers ==
    [status : {200, 400},
     body : [access_token : TokenValues, refresh_token : TokenValues,
             expires_in : {{}, {ExpiresIn}}] \cup {NotJson}]

\* A check that takes white space for a token.
hasTokenUntrimmed(value) == \E chars \in value : chars # <<>>

\* data.access_token?.trim() is truthy (and the same for refresh_token)
hasToken(value) == \E chars \in value : trim(chars) # <<>>

\* data.expires_in ?? 0
expiresIn(data) ==
    IF data.expires_in = {} THEN 0 ELSE CHOOSE seconds \in data.expires_in : TRUE

\* exchangeCode is called: it calls fetch with the token endpoint.
ExchangeCode ==
    /\ callPc = "idle"
    /\ callPc' = "fetch"
    /\ fetches' = Append(fetches, "TOKEN_URL")
    /\ UNCHANGED <<res, thrown, resolved, answers, OutsideCall>>

\* fetch resolves: the body is read as text or as JSON.
TokenFetchResolves(r) ==
    /\ callPc = "fetch"
    /\ res' = r
    /\ callPc' = IF ok(r.status) THEN "json" ELSE "text"
    /\ UNCHANGED <<fetches, thrown, resolved, answers, OutsideCall>>

\* res.text() resolves: Token exchange failed (HTTP status): body.
TokenTextResolves ==
    /\ callPc = "text"
    /\ callPc' = "threw"
    /\ thrown' = [message |-> "Token exchange failed", status |-> res.status,
                  body |-> res.body]
    /\ UNCHANGED <<fetches, res, resolved, answers, OutsideCall>>

\* res.json() resolves or rejects: up to the return or the throw.
TokenJsonSettles ==
    /\ callPc = "json"
    /\ IF res.body = NotJson
       THEN /\ callPc' = "threw"
            /\ thrown' = [message |-> "SyntaxError"]
            /\ UNCHANGED resolved
       ELSE IF ~hasToken(res.body.access_token)
       THEN /\ callPc' = "threw"
            /\ thrown' = [message |-> "Token exchange returned no access_token"]
            /\ UNCHANGED resolved
       ELSE IF ~hasToken(res.body.refresh_token)
       THEN /\ callPc' = "threw"
            /\ thrown' = [message |-> "Token exchange returned no refresh_token"]
            /\ UNCHANGED resolved
       ELSE /\ callPc' = "returned"
            /\ resolved' = [access |-> trim(CHOOSE c \in res.body.access_token : TRUE),
                            refresh |-> trim(CHOOSE c \in res.body.refresh_token : TRUE),
                            expires |-> StoredExpiry(now, expiresIn(res.body))]
            /\ UNCHANGED thrown
    /\ UNCHANGED <<fetches, res, answers, OutsideCall>>

ExchangeNext ==
    \/ ExchangeCode
    \/ \E r \in TokenAnswers : TokenFetchResolves(r)
    \/ TokenTextResolves
    \/ TokenJsonSettles

ExchangeSpec == Init /\ [][ExchangeNext]_vars

\* ---------------------------------------------------------- fetchProjectId

\* data.cloudaicompanionProject: absent, a string, or an object with an id
\* (an object without an id counts as one with the empty id).
Projects ==
    {[type |-> "undefined", id |-> ""],
     [type |-> "string", id |-> "p-string"], [type |-> "string", id |-> ""],
     [type |-> "object", id |-> "p-object"], [type |-> "object", id |-> ""]}

\* No answer: fetch rejects.
Rejected == [status |-> 0, body |-> NotJson]

\* What an endpoint may answer to loadCodeAssist.
ProjectAnswers ==
    [status : {200, 500},
     body : [cloudaicompanionProject : Projects] \cup {NotJson}] \cup {Rejected}

\* A reading of the answer that knows the string form only.
projectOfStringOnly(data) ==
    IF data.cloudaicompanionProject.type = "string"
    THEN {data.cloudaicompanionProject.id} ELSE {}

\* What the two checks on data.cloudaicompanionProject return: the set of the
\* identifier returned, empty when the loop goes on.
projectOf(data) ==
    IF data.cloudaicompanionProject.type = "string"
    THEN {data.cloudaicompanionProject.id}
    ELSE IF /\ data.cloudaicompanionProject.type = "object"
            /\ data.cloudaicompanionProject.id # ""
    THEN {data.cloudaicompanionProject.id}
    ELSE {}

\* The loop goes on with the endpoint after the latest tried: the next fetch,
\* or the return of the default after the last endpoint.
NextEndpoint ==
    IF Len(fetches) < Len(CODE_ASSIST_ENDPOINTS)
    THEN /\ callPc' = "fetch"
         /\ fetches' = Append(fetches, CODE_ASSIST_ENDPOINTS[Len(fetches) + 1])
         /\ UNCHANGED resolved
    ELSE /\ callPc' = "returned"
         /\ resolved' = DEFAULT_PROJECT_ID
         /\ UNCHANGED fetches

\* fetchProjectId is about to be called; each endpoint has its answer.
ProjectInit ==
    /\ ChatInit
    /\ LoginInit
    /\ StreamIdle
    /\ callPc = "idle"
    /\ fetches = <<>>
    /\ res = NoResponse
    /\ thrown = NoError
    /\ resolved = NoResult
    /\ answers \in [1..Len(CODE_ASSIST_ENDPOINTS) -> ProjectAnswers]
    /\ Elsewhere("send")

\* fetchProjectId is called: it calls fetch with the first endpoint.
FetchProjectId ==
    /\ callPc = "idle"
    /\ NextEndpoint
    /\ UNCHANGED <<res, thrown, answers, OutsideCall>>

\* fetch resolves: a response that is not ok continues the loop.
ProjectFetchResolves ==
    /\ callPc = "fetch"
    /\ answers[Len(fetches)] # Rejected
    /\ res' = answers[Len(fetches)]
    /\ IF ok(res'.status)
       THEN callPc' = "json" /\ UNCHANGED <<fetches, resolved>>
       ELSE NextEndpoint
    /\ UNCHANGED <<thrown, answers, OutsideCall>>

\* fetch rejects: the catch block continues the loop.
ProjectFetchRejects ==
    /\ callPc = "fetch"
    /\ answers[Len(fetches)] = Rejected
    /\ NextEndpoint
    /\ UNCHANGED <<res, thrown, answers, OutsideCall>>

\* res.json() resolves or rejects: the identifier is returned, or the loop
\* continues.
ProjectJsonSettles ==
    /\ callPc = "json"
    /\ IF res.body = NotJson \/ projectOf(res.body) = {}
       THEN NextEndpoint
       ELSE /\ callPc' = "returned"
            /\ resolved' = CHOOSE id \in projectOf(res.body) : TRUE
            /\ UNCHANGED fetches
    /\ UNCHANGED <<res, thrown, answers, OutsideCall>>

ProjectNext ==
    \/ FetchProjectId
    \/ ProjectFetchResolves
    \/ ProjectFetchRejects
    \/ ProjectJsonSettles

ProjectSpec == ProjectInit /\ [][ProjectNext]_vars

\* ---------------------------------------------------- fetchAvailableModels

EXCLUDED_PREFIXES == {<<"c", "h", "a", "t", "_">>, <<"t", "a", "b", "_">>}

\* The model ids an answer may hold, as characters.
ModelIds ==
    {<<"a">>, <<"b">>, <<"c">>, <<"c", "h", "a", "t", "_", "d">>,
     <<"T", "A", "B", "_", "e">>}

\* quotaInfo.remainingFraction in hundredths: absent, a number, or a string.
RawQuotas ==
    {[type |-> "undefined", val |-> ""],
     [type |-> "number", val |-> "50"], [type |-> "string", val |-> "50"],
     [type |-> "string", val |-> "abc"], [type |-> "string", val |-> ""]}

\* data.models: no member, or the entries of the object in insertion order,
\* each id once.
ModelLists ==
    {list \in UNION {[1..n -> [id : ModelIds, raw : RawQuotas]] : n \in 0..MaxModels} :
        \A i, j \in 1..Len(list) : list[i].id = list[j].id => i = j}

ModelAnswers ==
    [status : {200}, body : [models : {{list} : list \in ModelLists} \cup {{}}]]
        \cup {[status |-> 500, body |-> [models |-> {}]]}

\* String.prototype.toLowerCase, character by character.
toLowerCase(chars) ==
    [i \in 1..Len(chars) |->
        CASE chars[i] = "T" -> "t"
          [] chars[i] = "A" -> "a"
          [] chars[i] = "B" -> "b"
          [] OTHER -> chars[i]]

\* EXCLUDED_PREFIXES.some((prefix) => lower.startsWith(prefix))
excluded(modelId) ==
    \E prefix \in EXCLUDED_PREFIXES : startsWith(toLowerCase(modelId), prefix)

\* Number(remainingRaw): the set of the number, empty for NaN. A string of
\* digits gives its value, the empty string gives 0, other text gives NaN.
Number(raw) ==
    CASE raw.val = "50" -> {50}
      [] raw.val = "" -> {0}
      [] OTHER -> {}

\* a.remainingQuota ?? 1, in hundredths, of a model pushed with
\* remainingRaw = raw.
quotaOf(raw) ==
    IF raw.type = "undefined" \/ Number(raw) = {} THEN 100
    ELSE CHOOSE n \in Number(raw) : TRUE

\* a.id.localeCompare(b.id) < 0 for ids of lower-case letters.
Collation == <<"_", "a", "b", "c", "d", "e", "h", "t">>

RECURSIVE localeBefore(_, _)
localeBefore(a, b) ==
    LET rank(ch) == CHOOSE i \in 1..Len(Collation) : Collation[i] = ch
    IN  IF a = <<>> THEN b # <<>>
        ELSE IF b = <<>> THEN FALSE
        ELSE IF Head(a) = Head(b) THEN localeBefore(Tail(a), Tail(b))
        ELSE rank(Head(a)) < rank(Head(b))

\* The comparator of models.sort is negative: a goes before b.
before(a, b) ==
    IF quotaOf(a.raw) # quotaOf(b.raw) THEN quotaOf(b.raw) - quotaOf(a.raw) < 0
    ELSE localeBefore(a.id, b.id)

RECURSIVE sort(_)
\* models.sort(comparator): a stable sort, here by insertion.
sort(models) ==
    IF models = <<>> THEN <<>>
    ELSE LET rest == sort(SubSeq(models, 1, Len(models) - 1))
             last == models[Len(models)]
             ahead == {i \in 1..Len(rest) : ~before(last, rest[i])}
             k == IF ahead = {} THEN 0 ELSE CHOOSE i \in ahead : \A j \in ahead : j <= i
         IN  SubSeq(rest, 1, k) \o <<last>> \o SubSeq(rest, k + 1, Len(rest))

RECURSIVE kept(_)
\* The loop over Object.entries(data.models): the models pushed.
kept(list) ==
    IF list = <<>> THEN <<>>
    ELSE IF excluded(Head(list).id) THEN kept(Tail(list))
    ELSE <<Head(list)>> \o kept(Tail(list))

\* fetchAvailableModels is about to be called; the endpoint has its answer.
ModelsInit ==
    /\ ChatInit
    /\ LoginInit
    /\ StreamIdle
    /\ callPc = "idle"
    /\ fetches = <<>>
    /\ res = NoResponse
    /\ thrown = NoError
    /\ resolved = NoResult
    /\ answers \in {<<answer>> : answer \in ModelAnswers}
    /\ Elsewhere("send")

\* fetchAvailableModels is called: it calls fetch.
FetchAvailableModels ==
    /\ callPc = "idle"
    /\ callPc' = "fetch"
    /\ fetches' = Append(fetches, "fetchAvailableModels")
    /\ UNCHANGED <<res, thrown, resolved, answers, OutsideCall>>

\* fetch resolves: the body is read as text or as JSON.
ModelsFetchResolves ==
    /\ callPc = "fetch"
    /\ res' = answers[1]
    /\ callPc' = IF ok(res'.status) THEN "json" ELSE "text"
    /\ UNCHANGED <<fetches, thrown, resolved, answers, OutsideCall>>

\* res.text() resolves: Failed to fetch models (HTTP status): body.
ModelsTextResolves ==
    /\ callPc = "text"
    /\ callPc' = "threw"
    /\ thrown' = [message |-> "Failed to fetch models", status |-> res.status]
    /\ UNCHANGED <<fetches, res, resolved, answers, OutsideCall>>

\* res.json() resolves: up to the return.
ModelsJsonResolves ==
    /\ callPc = "json"
    /\ callPc' = "returned"
    /\ resolved' = IF res.body.models = {} THEN <<>>
                   ELSE sort(kept(CHOOSE list \in res.body.models : TRUE))
    /\ UNCHANGED <<fetches, res, thrown, answers, OutsideCall>>

ModelsNext ==
    \/ FetchAvailableModels
    \/ ModelsFetchResolves
    \/ ModelsTextResolves
    \/ ModelsJsonResolves

ModelsSpec == ModelsInit /\ [][ModelsNext]_vars

\* ------------------------------------------------- stripInlineThinkingTags

\* A text is a sequence of tokens: "O" is an open tag such as <thinking>, "C"
\* a close tag such as </thinking> (the matches of THINKING_TAG_RE), "F" a
\* run of three backticks, "T" one backtick, "\n" a line feed, which is the
\* white space of the text, and "x" a character of none of these kinds.
TextTokens == {"O", "C", "x", "T", "F", "\n"}

\* What a text is put together from: one token, or a whole thinking segment.
TextPieces == {<<t>> : t \in TextTokens} \cup {<<"O", "x", "C">>}

RECURSIVE Pieced(_)
\* The text made of the pieces in turn.
Pieced(pieces) ==
    IF pieces = <<>> THEN <<>> ELSE Head(pieces) \o Pieced(Tail(pieces))

Texts == {Pieced(pieces) : pieces \in UNION {[1..n -> TextPieces] : n \in 0..MaxText}}

\* QUICK_TAG_RE.test(raw)
quickTag(chars) == \E i \in 1..Len(chars) : chars[i] \in {"O", "C"}

RECURSIVE fenced(_, _)
\* The matches of fencedRe from position p on, as regions [start, end): a
\* fence at the start of the text or after a line feed not consumed by the
\* match before, the rest of its line, and the shortest body up to a line
\* feed, the fence and a line feed or the end of the text, or else up to the
\* end of the text.
fenced(chars, p) ==
    LET n == Len(chars)
        opens == {i \in p..n :
                     /\ chars[i] = "F"
                     /\ IF i = 1 THEN TRUE ELSE i - 1 >= p /\ chars[i - 1] = "\n"
                     /\ \E j \in (i + 1)..n : chars[j] = "\n"}
        i == CHOOSE a \in opens : \A b \in opens : a <= b
        eol == CHOOSE j \in (i + 1)..n :
                   chars[j] = "\n" /\ \A m \in (i + 1)..(j - 1) : chars[m] # "\n"
        closes == {e \in (eol + 1)..(n - 1) :
                      /\ chars[e] = "\n"
                      /\ chars[e + 1] = "F"
                      /\ IF e + 2 > n THEN TRUE ELSE chars[e + 2] = "\n"}
        e == CHOOSE a \in closes : \A b \in closes : a <= b
        end == IF closes = {} THEN n + 1 ELSE IF e + 2 > n THEN e + 2 ELSE e + 3
    IN  IF opens = {} THEN {}
        ELSE {[start |-> i, end |-> end]} \cup fenced(chars, end)

RECURSIVE inline(_, _)
\* The matches of inlineRe from position p on: a run of backticks, one or
\* more characters that are not backticks, a run of backticks.
inline(chars, p) ==
    LET n == Len(chars)
        tick(i) == chars[i] \in {"T", "F"}
        runEnd(i) == CHOOSE j \in i..n :
                         /\ \A m \in i..j : tick(m)
                         /\ IF j = n THEN TRUE ELSE ~tick(j + 1)
        ticks == {i \in p..n : tick(i)}
        i == CHOOSE a \in ticks : \A b \in ticks : a <= b
        later == {k \in (runEnd(i) + 2)..n : tick(k)}
        k == CHOOSE a \in later : \A b \in later : a <= b
    IN  IF ticks = {} THEN {}
        ELSE IF later = {} THEN {}
        ELSE {[start |-> i, end |-> runEnd(k) + 1]} \cup inline(chars, runEnd(k) + 1)

\* findCodeRegions(text)
findCodeRegions(chars) ==
    LET regions == fenced(chars, 1)
    IN  regions \cup
            {m \in inline(chars, 1) :
                ~\E r \in regions : m.start >= r.start /\ m.end <= r.end}

\* A check that finds no position inside code.
isInsideCodeNever(at, regions) == FALSE

\* isInsideCode(pos, regions)
isInsideCode(at, regions) == \E r \in regions : at >= r.start /\ at < r.end

\* raw.slice(from, to), as the positions it holds.
slice(from, to) == [k \in 1..(IF to > from THEN to - from ELSE 0) |-> from + k - 1]

\* The characters at positions at; position 0 is a line feed put in by join.
Text(chars, at) == [k \in 1..Len(at) |-> IF at[k] = 0 THEN "\n" ELSE chars[at[k]]]

RECURSIVE trimAt(_, _)
\* String.prototype.trim on the characters at positions at.
trimAt(chars, at) ==
    IF at = <<>> THEN at
    ELSE IF Text(chars, at)[1] = "\n" THEN trimAt(chars, Tail(at))
    ELSE IF Text(chars, at)[Len(at)] = "\n"
    THEN trimAt(chars, SubSeq(at, 1, Len(at) - 1))
    ELSE at

RECURSIVE join(_)
\* thinkingParts.join("\n")
join(parts) ==
    IF parts = <<>> THEN <<>>
    ELSE IF Len(parts) = 1 THEN parts[1]
    ELSE parts[1] \o <<0>> \o join(Tail(parts))

\* A tag that is left in the text: lastIndex = idx.
afterTagKept(idx) == idx

\* lastIndex = idx + match[0].length
afterTag(idx) == idx + 1

\* An unclosed tag whose text is dropped.
unclosedDropped(chars, from) == <<>>

\* raw.slice(currentThinkingStart).trim()
unclosed(chars, from) == trimAt(chars, slice(from, Len(chars) + 1))

RECURSIVE scan(_, _, _, _)
\* for (const match of raw.matchAll(THINKING_TAG_RE)), from position idx on.
scan(chars, regions, idx, loc) ==
    IF idx > Len(chars) THEN loc
    ELSE IF chars[idx] \notin {"O", "C"} \/ isInsideCode(idx, regions)
    THEN scan(chars, regions, idx + 1, loc)
    ELSE LET isClose == chars[idx] = "C"
             after ==
                 IF ~loc.inThinking
                 THEN [loc EXCEPT
                         !.result = @ \o slice(loc.lastIndex, idx),
                         !.inThinking = ~isClose,
                         !.currentThinkingStart =
                             IF isClose THEN @ ELSE afterTag(idx)]
                 ELSE IF isClose
                 THEN [loc EXCEPT
                         !.thinkingParts =
                             Append(@, trimAt(chars, slice(loc.currentThinkingStart, idx))),
                         !.inThinking = FALSE]
                 ELSE loc
         IN  scan(chars, regions, idx + 1, [after EXCEPT !.lastIndex = afterTag(idx)])

\* stripInlineThinkingTags(raw): thinking and content, and the positions of
\* raw their characters come from.
stripInlineThinkingTags(chars) ==
    IF chars = <<>> \/ ~quickTag(chars)
    THEN [thinking |-> <<>>, content |-> chars,
          from |-> [thinking |-> <<>>, content |-> slice(1, Len(chars) + 1)]]
    ELSE LET loc == scan(chars, findCodeRegions(chars), 1,
                         [result |-> <<>>, lastIndex |-> 1, inThinking |-> FALSE,
                          thinkingParts |-> <<>>, currentThinkingStart |-> 1])
             parts == IF loc.inThinking
                      THEN Append(loc.thinkingParts,
                                  unclosed(chars, loc.currentThinkingStart))
                      ELSE loc.thinkingParts
             result == IF loc.inThinking THEN loc.result
                       ELSE loc.result \o slice(loc.lastIndex, Len(chars) + 1)
             from == [thinking |-> trimAt(chars, join(parts)),
                      content |-> trimAt(chars, result)]
         IN  [thinking |-> Text(chars, from.thinking),
              content |-> Text(chars, from.content), from |-> from]

\* A text is about to be handed to stripInlineThinkingTags.
StripInit ==
    /\ ChatInit
    /\ LoginInit
    /\ StreamIdle
    /\ rawText \in Texts
    /\ stripped = NoResult
    /\ Elsewhere("strip")

\* The call of stripInlineThinkingTags(raw).
Strip ==
    /\ stripped = NoResult
    /\ stripped' = stripInlineThinkingTags(rawText)
    /\ UNCHANGED <<rawText, partVars, execVars, moreVars, callVars, streamVars, loopVars,
                   credVars, loginVars>>

StripSpec == StripInit /\ [][Strip]_vars

\* --------------------------------------------------------------- exec tool

DEFAULT_TIMEOUT_SEC == 30
MAX_TIMEOUT_SEC == 300

\* params.timeout: absent, or a finite number.
Timeouts == {{}, {0 - 5}, {0}, {1}, {2}, {MAX_TIMEOUT_SEC}, {MAX_TIMEOUT_SEC + 1}}

Min(a, b) == IF a < b THEN a ELSE b
Max(a, b) == IF a > b THEN a ELSE b

\* clampWithDefault(value, fallback, min, max); Math.floor leaves the whole
\* numbers of Timeouts as they are.
clampWithDefault(value, fallback, min, max) ==
    LET parsed == IF value = {} THEN fallback ELSE CHOOSE n \in value : TRUE
    IN  Max(min, Min(max, parsed))

\* The exec tool is about to be called with a command and a timeout.
ExecInit ==
    /\ ChatInit
    /\ LoginInit
    /\ StreamIdle
    /\ timeout \in Timeouts
    /\ execPc = "idle"
    /\ timeoutSec = 0
    /\ elapsed = 0
    /\ proc = NoProc
    /\ streams = "open"
    /\ timer = "none"
    /\ killed = FALSE
    /\ signal \in {"none", "given"}
    /\ execResult = NoResult
    /\ Elsewhere("exec")

ExecOutside == <<loopVars, credVars, loginVars, streamVars, partVars, callVars, stripVars,
                 moreVars>>

\* proc.kill(): the signal is sent to a process that has not exited.
kill(p) == IF p.state = "running" THEN [p EXCEPT !.kills = @ + 1] ELSE p

\* The codes a process exits with: by itself with 0 or 1; once a signal was
\* sent also with the code of the signal, or with no code at all.
ExitCodes(p) == {{0}, {1}} \cup IF p.kills > 0 THEN {{}, {143}} ELSE {}

\* execute up to the await: the timeout is clamped, the command spawned and
\* the timer set.
Execute ==
    /\ execPc = "idle"
    /\ execPc' = "awaiting"
    /\ timeoutSec' = clampWithDefault(timeout, DEFAULT_TIMEOUT_SEC, 1, MAX_TIMEOUT_SEC)
    /\ proc' = [NoProc EXCEPT !.state = "running"]
    /\ timer' = "armed"
    /\ UNCHANGED <<timeout, elapsed, streams, killed, signal, execResult, ExecOutside>>

\* Bun.spawn throws: the catch returns a failed result without a killed note.
SpawnThrows ==
    /\ execPc = "idle"
    /\ execPc' = "returned"
    /\ timeoutSec' = clampWithDefault(timeout, DEFAULT_TIMEOUT_SEC, 1, MAX_TIMEOUT_SEC)
    /\ execResult' = [kind |-> "error", status |-> "failed", killed |-> FALSE,
                       note |-> 0, exitCode |-> {}, durationMs |-> {elapsed * 1000}]
    /\ UNCHANGED <<timeout, elapsed, proc, streams, timer, killed, signal, ExecOutside>>

\* A second passes. A timer that is due runs before more time passes.
SecondPasses ==
    /\ execPc = "awaiting"
    /\ ~(timer = "armed" /\ elapsed >= timeoutSec)
    /\ elapsed <= timeoutSec
    /\ elapsed' = elapsed + 1
    /\ UNCHANGED <<execPc, timeout, timeoutSec, proc, streams, timer, killed, signal,
                   execResult, ExecOutside>>

\* The process exits, by itself or on the signal.
Exits ==
    /\ proc.state = "running"
    /\ \E code \in ExitCodes(proc) :
           proc' = [proc EXCEPT !.state = "exited", !.exitedAt = elapsed,
                                !.exitCode = code]
    /\ UNCHANGED <<execPc, timeout, timeoutSec, elapsed, streams, timer, killed, signal,
                   execResult, ExecOutside>>

\* stdout and stderr end: the process has exited and nothing else holds
\* the pipes open any longer.
StreamsEnd ==
    /\ proc.state = "exited"
    /\ streams = "open"
    /\ streams' = "ended"
    /\ UNCHANGED <<execPc, timeout, timeoutSec, elapsed, proc, timer, killed, signal,
                   execResult, ExecOutside>>

\* The callback of setTimeout: killed = true; proc.kill().
TimerFires ==
    /\ timer = "armed"
    /\ elapsed >= timeoutSec
    /\ timer' = "fired"
    /\ killed' = TRUE
    /\ proc' = IF proc.state = "running"
               THEN [kill(proc) EXCEPT !.signalled = TRUE] ELSE proc
    /\ UNCHANGED <<execPc, timeout, timeoutSec, elapsed, streams, signal, execResult,
                   ExecOutside>>

\* The listener of the abort event, once: if (!killed) proc.kill().
Abort ==
    /\ execPc # "idle"
    /\ signal = "given"
    /\ signal' = "aborted"
    /\ proc' = IF killed THEN proc ELSE kill(proc)
    /\ UNCHANGED <<execPc, timeout, timeoutSec, elapsed, streams, timer, killed,
                   execResult, ExecOutside>>

\* execute after the await: clearTimeout and the result.
Settle ==
    /\ execPc = "awaiting"
    /\ streams = "ended"
    /\ execPc' = "returned"
    /\ timer' = IF timer = "armed" THEN "cleared" ELSE timer
    /\ execResult' = [kind |-> "result",
                       status |-> IF killed THEN "failed" ELSE "completed",
                       killed |-> killed,
                       note |-> IF killed THEN timeoutSec ELSE 0,
                       exitCode |-> IF proc.exitCode = {} THEN {0 - 1} ELSE proc.exitCode,
                       durationMs |-> {elapsed * 1000}]
    /\ UNCHANGED <<timeout, timeoutSec, elapsed, proc, streams, killed, signal,
                   ExecOutside>>

ExecNext ==
    \/ Execute
    \/ SpawnThrows
    \/ SecondPasses
    \/ Exits
    \/ StreamsEnd
    \/ TimerFires
    \/ Abort
    \/ Settle

ExecSpec == ExecInit /\ [][ExecNext]_vars

\* ---------------------------------------------------------- truncateMiddle

DEFAULT_MAX_OUTPUT == 200000

\* How far from the ceiling the lengths of the texts lie.
MaxOver == 60

\* text.length of the texts handed in: around the ceiling, and far above it.
Lengths ==
    {DEFAULT_MAX_OUTPUT + d : d \in (0 - MaxOver)..MaxOver}
        \cup {2 * DEFAULT_MAX_OUTPUT + d : d \in 0..MaxOver}

RECURSIVE Digits(_)
\* The length of the decimal numeral of n, as a template literal prints it.
Digits(n) == IF n < 10 THEN 1 ELSE 1 + Digits(n \div 10)

\* The length of the marker around the numeral: two line feeds, "... (",
\* " chars truncated) ..." and two line feeds.
MarkerLength == 7 + 23

\* ${text.length - max}
omitted(length, max, half) == length - max

\* truncateMiddle(text, max), for a text of the given length: the positions
\* of the text kept as head and as tail, the number the marker states, and
\* the length of what is returned.
truncateMiddle(length, max) ==
    IF length <= max
    THEN [head |-> [from |-> 1, to |-> length], tail |-> [from |-> 1, to |-> 0],
          stated |-> {}, length |-> length]
    ELSE LET half == (max \div 2) - 20
         IN  [head |-> [from |-> 1, to |-> half],
              tail |-> [from |-> length - half + 1, to |-> length],
              stated |-> {omitted(length, max, half)},
              length |-> half + MarkerLength
                            + Digits(omitted(length, max, half)) + half]

\* A text is about to be handed to truncateMiddle.
TruncateInit ==
    /\ ChatInit
    /\ LoginInit
    /\ StreamIdle
    /\ textLength \in Lengths
    /\ truncated = NoResult
    /\ Elsewhere("truncate")

\* The call truncateMiddle(stdout.trim(), maxOutput) of the exec tool.
Truncate ==
    /\ truncated = NoResult
    /\ truncated' = truncateMiddle(textLength, DEFAULT_MAX_OUTPUT)
    /\ UNCHANGED <<textLength, loopVars, credVars, loginVars, streamVars, partVars,
                   callVars, stripVars, execVars, sessionVars>>

TruncateSpec == TruncateInit /\ [][Truncate]_vars

\* ------------------------------------------------- agent-session variant

SessionOutside ==
    <<loopVars, credVars, loginVars, streamVars, partVars, callVars, stripVars, execVars,
      truncVars>>

\* What the user submits: a blank line, a message, the abort command.
Submitted == {" ", "hello", "/abort"}

\* Messages of the errors session.prompt rejects with.
PromptErrors == {"API error (HTTP 401)", "Request was aborted"}

\* The calls of session.prompt that have not returned.
PromptsInFlight == {p \in 1..Len(prompts) : prompts[p] = "prompt"}

SessionInit ==
    /\ ChatInit
    /\ LoginInit
    /\ StreamIdle
    /\ Elsewhere("none")

\* The user types into the editor.
Types ==
    /\ ~exited
    /\ ~editorText
    /\ editorText' = TRUE
    /\ UNCHANGED <<sessionBusy, prompts, statusLine, notices, lastCtrlCAt, exited,
                   SessionOutside>>

\* doSendMessage up to await session.prompt(text)
doSendMessage ==
    IF sessionBusy
    THEN UNCHANGED <<sessionBusy, prompts, statusLine>>
    ELSE /\ Len(prompts) < MaxPrompts
         /\ sessionBusy' = TRUE
         /\ statusLine' = "streaming"
         /\ prompts' = Append(prompts, "prompt")

\* handleCommand, case "abort"
abort ==
    IF ~sessionBusy
    THEN /\ notices' = notices \cup {"nothing to abort"}
         /\ UNCHANGED sessionBusy
    ELSE /\ notices' = notices \cup {"aborting..."}
         /\ sessionBusy' = FALSE

\* editor.onSubmit
onSubmit(value) ==
    /\ ~exited
    /\ editorText
    /\ editorText' = FALSE
    /\ IF value = " " THEN UNCHANGED <<sessionBusy, prompts, statusLine, notices>>
       ELSE IF value = "/abort" THEN abort /\ UNCHANGED <<prompts, statusLine>>
       ELSE doSendMessage /\ UNCHANGED notices
    /\ UNCHANGED <<lastCtrlCAt, exited, SessionOutside>>

\* session.prompt resolves: the rest of the try block, then finally.
PromptResolves(p) ==
    /\ ~exited
    /\ p \in PromptsInFlight
    /\ prompts' = [prompts EXCEPT ![p] = "returned"]
    /\ statusLine' = "ready"
    /\ sessionBusy' = FALSE
    /\ UNCHANGED <<notices, editorText, lastCtrlCAt, exited, SessionOutside>>

\* session.prompt rejects: the catch block up to await getValidTokens() for
\* a message with 401 or OAuth, and to the end of finally for any other.
PromptRejects(p, message) ==
    /\ ~exited
    /\ p \in PromptsInFlight
    /\ IF message = "API error (HTTP 401)"
       THEN /\ prompts' = [prompts EXCEPT ![p] = "refresh"]
            /\ notices' = notices \cup {"Error", "Attempting token refresh"}
            /\ UNCHANGED <<sessionBusy, statusLine>>
       ELSE /\ prompts' = [prompts EXCEPT ![p] = "returned"]
            /\ notices' = notices \cup {"Error"}
            /\ statusLine' = "error | ready"
            /\ sessionBusy' = FALSE
    /\ UNCHANGED <<editorText, lastCtrlCAt, exited, SessionOutside>>

\* getValidTokens() resolves in the catch block: the rest of it, then finally.
RefreshSettles(p, refreshed) ==
    /\ ~exited
    /\ p \in 1..Len(prompts)
    /\ prompts[p] = "refresh"
    /\ prompts' = [prompts EXCEPT ![p] = "returned"]
    /\ notices' = notices \cup {IF refreshed THEN "Token refreshed. Try again."
                                             ELSE "Refresh failed"}
    /\ statusLine' = "error | ready"
    /\ sessionBusy' = FALSE
    /\ UNCHANGED <<editorText, lastCtrlCAt, exited, SessionOutside>>

\* editor.onCtrlC: withinSecond is now - lastCtrlCAt < 1000. What
\* session.agent.abort() does to the prompt is the library's: the prompt
\* resolves or rejects in a later step.
onCtrlC ==
    /\ ~exited
    /\ IF sessionBusy
       THEN /\ statusLine' = "aborted | ready"
            /\ sessionBusy' = FALSE
            /\ UNCHANGED <<editorText, lastCtrlCAt, exited>>
       ELSE IF editorText
       THEN /\ editorText' = FALSE
            /\ statusLine' = "cleared input | ready"
            /\ UNCHANGED <<sessionBusy, lastCtrlCAt, exited>>
       ELSE IF lastCtrlCAt = "recent"
       THEN /\ exited' = TRUE
            /\ UNCHANGED <<sessionBusy, statusLine, editorText, lastCtrlCAt>>
       ELSE /\ lastCtrlCAt' = "recent"
            /\ statusLine' = "press ctrl+c again to exit"
            /\ UNCHANGED <<sessionBusy, editorText, exited>>
    /\ UNCHANGED <<prompts, notices, SessionOutside>>

\* A second passes since the last counted Ctrl+C.
CtrlCAges ==
    /\ ~exited
    /\ lastCtrlCAt = "recent"
    /\ lastCtrlCAt' = "old"
    /\ UNCHANGED <<sessionBusy, prompts, statusLine, notices, editorText, exited,
                   SessionOutside>>

SessionNext ==
    \/ Types
    \/ \E value \in Submitted : onSubmit(value)
    \/ \E p \in 1..MaxPrompts : PromptResolves(p)
    \/ \E p \in 1..MaxPrompts, message \in PromptErrors : PromptRejects(p, message)
    \/ \E p \in 1..MaxPrompts, refreshed \in BOOLEAN : RefreshSettles(p, refreshed)
    \/ onCtrlC
    \/ CtrlCAges

SessionSpec == SessionInit /\ [][SessionNext]_vars

\* ------------------------------------------------------------------ claims

LimitNotice == "Tool loop limit reached"

\* The loop of the latest turn has been left and doSendMessage has returned.
TurnOver == ended \in {"text", "error", "exhausted"}

\* The entries the latest turn added to history.
TurnEntries == SubSeq(history, Len(histAtStart) + 1, Len(history))

\* Every function_call entry is directly followed by the function_response
\* of the same tool.
Matched(h) ==
    \A i \in 1..Len(h) :
        h[i].role = "function_call" =>
            /\ i < Len(h)
            /\ h[i + 1].role = "function_response"
            /\ h[i + 1].name = h[i].name

\* Every user entry is answered by an assistant entry before the next user
\* entry.
Answered(h) ==
    \A i \in 1..Len(h) :
        h[i].role = "user" =>
            \E j \in (i + 1)..Len(h) :
                /\ h[j].role = "assistant"
                /\ \A k \in (i + 1)..(j - 1) : h[k].role # "user"

InFlight == {t \in Tasks : pc[t] = "send"}

\* C1: a turn in which the model answered 15 round-trips with a function
\* call ends after the 15th with the limit notice, and the turn's entries
\* are the user entry followed by 15 function_call / function_response pairs.
C1_FifteenCallsLeavePairs ==
    (TurnOver /\ fcAnswers = MAX_TOOL_LOOPS) =>
        /\ sends = MAX_TOOL_LOOPS
        /\ LimitNotice \in chatLog
        /\ Len(TurnEntries) = 2 * MAX_TOOL_LOOPS + 1
        /\ TurnEntries[1].role = "user"
        /\ Matched(TurnEntries)

\* C2: the limit notice is in the chat log of a finished turn exactly when
\* the loop was left because the budget was exhausted, not when it was left
\* by plain text or by a failure.
C2_NoticeOnlyWhenExhausted ==
    TurnOver => (LimitNotice \in chatLog <=> ended = "exhausted")

\* C3: after a transport failure on the first round-trip of a turn, history
\* equals history as it was before the turn began.
C3_FirstSendFailureRestoresHistory ==
    (failure.at = 1 /\ ~toolRaised) => history = histAtStart

C3_Witness ==
    /\ TurnOver
    /\ failure.at = 1
    /\ ~toolRaised
    /\ Len(histAtStart) > 0

\* C4: after a turn that ended in a transport failure, at whatever
\* iteration, every user entry of history is answered by an assistant entry.
C4_FailedTurnLeavesNoUnansweredRequest ==
    (~isBusy /\ ended = "error" /\ ~toolRaised) => Answered(history)

\* C5: whenever no turn is in flight, every function_call entry of history
\* is directly followed by the function_response of the same tool.
C5_CallsAnsweredWhenIdle ==
    ~isBusy => Matched(history)

\* C6: executeTool never rejects into the agent loop.
C6_ToolsNeverRaise ==
    ~toolRaised

\* C7 as stated: when executeTool settles for a name that is not registered,
\* the response {output: 'Unknown tool: <name>', error: true} is appended and
\* the next model round-trip starts.
C7_UnknownToolThenNextRoundTrip ==
    [][\A t \in Tasks :
         (pc[t] = "tool" /\ call[t].name \notin allTools /\ pc'[t] # "tool") =>
            /\ history' = Append(history,
                   [role |-> "function_response", content |-> UnknownTool(call[t].name),
                    name |-> call[t].name, error |-> TRUE])
            /\ pc'[t] = "send"]_vars

\* C7 amended: the response is appended and control returns to the head of
\* the loop without an error: the next round-trip starts, unless the call was
\* the 15th of the turn, which then ends with the limit notice.
C7_UnknownToolFoldedIntoHistory ==
    [][\A t \in Tasks :
         (pc[t] = "tool" /\ call[t].name \notin allTools /\ pc'[t] # "tool") =>
            /\ history' = Append(history,
                   [role |-> "function_response", content |-> UnknownTool(call[t].name),
                    name |-> call[t].name, error |-> TRUE])
            /\ toolRaised' = toolRaised
            /\ failure' = failure
            /\ IF loopCount[t] < MAX_TOOL_LOOPS
               THEN pc'[t] = "send" /\ loopCount'[t] = loopCount[t] + 1
                    /\ sends' = sends + 1 /\ ended' = "running"
               ELSE ended' = "exhausted" /\ LimitNotice \in chatLog']_vars

C7_Witness ==
    /\ Len(history) > 0
    /\ history[Len(history)].role = "function_response"
    /\ history[Len(history)].content = "Unknown tool: bogus"
    /\ history[Len(history)].error
    /\ InFlight # {}

\* C8: a finished turn that failed with HTTP 401 has sent exactly one
\* refresh-grant request, and a turn that failed otherwise has sent none.
C8_OneRefreshRequestOn401 ==
    (TurnOver /\ ended = "error") =>
        refreshReqs = (IF failure.message = "API error (HTTP 401)" THEN 1 ELSE 0)

\* C9: a turn makes at most 15 round-trips, a finished turn has cleared the
\* busy flag, and every turn in flight finishes.
C9_TurnEndsAndClearsBusy ==
    /\ [](sends <= MAX_TOOL_LOOPS)
    /\ [](TurnOver => ~isBusy)
    /\ (isBusy ~> (TurnOver /\ ~isBusy))

C9_Witness ==
    /\ TurnOver
    /\ ~isBusy
    /\ "Refresh failed" \in chatLog
    /\ failure.at > 1

\* C10: at most one invocation of doSendMessage is suspended at any time, so
\* at most one round-trip is in flight and none while a tool executes; a
\* message submitted while the flag is set leaves history, the invocations
\* and the count of sendMessage calls as they are.
C10_OneRoundTripInFlight ==
    /\ [](Cardinality({t \in Tasks : pc[t] # "idle"}) <= 1)
    /\ [][(isBusy /\ submits' # submits) =>
             /\ history' = history
             /\ pc' = pc
             /\ sends' = sends
             /\ started' = started]_vars

C10_Witness ==
    /\ submits > started
    /\ InFlight # {}
    /\ Len(history) > 1

\* C11: while a turn is in flight, a slash command leaves history and
\* totalUsage as they are.
C11_CommandsLeaveHistoryInFlight ==
    [][(isBusy /\ commands' # commands) =>
          (history' = history /\ totalUsage' = totalUsage)]_vars

\* The steps main takes from one await to the next, or to its end.
LoginSteps ==
    {<<"start", "listen">>, <<"listen", "wait">>, <<"listen", "failed">>,
     <<"wait", "close">>, <<"wait", "failed">>, <<"close", "exchange">>,
     <<"close", "failed">>, <<"exchange", "email">>, <<"exchange", "failed">>,
     <<"email", "project">>, <<"project", "persisted">>}

\* The callback the wait resolved with carries a code, and its state is the
\* generated one, character for character.
CallbackAccepted ==
    /\ settled = "resolved"
    /\ callbackUrl.code \notin {null, ""}
    /\ callbackUrl.state = GeneratedState

\* C12: exchangeCode is called only after a callback that carries a code and
\* whose state equals the generated state exactly; after a callback without
\* a code or with another state the flow fails and exchangeCode is not called.
C12_ExchangeOnlyWithCodeAndExactState ==
    /\ exchanges > 0 => CallbackAccepted
    /\ (settled = "resolved" /\ ~CallbackAccepted /\ phase # "close") =>
          (phase = "failed" /\ exchanges = 0)

C12_Witness ==
    /\ phase = "failed"
    /\ settled = "resolved"
    /\ callbackUrl.code = "4/0AbCd"
    /\ callbackUrl.state = "9F3A"
    /\ closeCalls > 0

\* C13: the stages of a login are reached in the order PKCE generated,
\* listener started, browser opened, callback awaited, code exchanged,
\* enrichment, persisted; the credential file is written at most once, by
\* the step that ends a flow in which a callback with a code and the matching
\* state was received, the code exchanged and the enrichment done; a flow
\* that failed has left the credential file as it was.
C13_LoginOrderAndSingleWrite ==
    /\ [](/\ Len(trail) <= Len(LoginOrder)
          /\ trail = SubSeq(LoginOrder, 1, Len(trail))
          /\ fileWrites <= 1
          /\ fileWrites = 1 <=> phase = "persisted"
          /\ phase = "persisted" =>
                (trail = LoginOrder /\ CallbackAccepted /\ exchanges = 1)
          /\ phase = "failed" => tokenFile = TokenData(0, 0)
          /\ (settled = "rejected" /\ phase # "listen") => phase = "failed"
          /\ (settled = "resolved" /\ ~CallbackAccepted) => phase \in {"close", "failed"})
    /\ [][/\ phase' # phase => <<phase, phase'>> \in LoginSteps
          /\ phase \in {"failed", "persisted"} => phase' = phase
          /\ tokenFile' # tokenFile => (phase = "project" /\ fileWrites' = 1)]_vars

C13_Witness ==
    /\ phase = "persisted"
    /\ fileWrites = 1
    /\ tokenFile.email = "undefined"
    /\ Len(responses) = 2
    /\ responses[1].status = 404

\* C14: when a login attempt whose wait has settled is over, server.close
\* has been called exactly once.
C14_ServerClosedExactlyOnce ==
    (/\ settled # "pending"
     /\ phase = "failed" \/ (phase = "persisted" /\ immediates = 0)) =>
        closeCalls = 1

\* The requests to /oauth-callback, by their place among the requests.
Callbacks == {i \in 1..Len(responses) : responses[i].status = 200}

\* C15: the wait settles once and stays as it settled; it is resolved exactly
\* when a request to /oauth-callback was answered before the timer fired,
\* with the URL of the first such request, and rejected exactly when the
\* timer fired before any such request; requests without a URL are answered
\* 400 and requests to another path 404; a main that awaits the callback
\* sees it settle.
C15_WaitSettlesOnce ==
    /\ [][settled # "pending" =>
             (settled' = settled /\ callbackUrl' = callbackUrl)]_vars
    /\ [](\A i \in 1..Len(responses) :
             responses[i].status =
                (IF responses[i].url.path = "/oauth-callback" THEN 200
                 ELSE IF responses[i].url.path = "" THEN 400 ELSE 404))
    /\ [](settled = "pending" => (Callbacks = {} /\ ~timerFired))
    /\ [](settled = "rejected" => (Callbacks = {} /\ timerFired))
    /\ [](settled = "resolved" =>
             \E i \in Callbacks : /\ \A j \in Callbacks : i <= j
                                   /\ callbackUrl = responses[i].url)
    /\ (phase = "wait" ~> settled # "pending")

C15_Witness ==
    /\ settled = "resolved"
    /\ timerFired
    /\ Len(responses) = 2
    /\ responses[1].status = 200
    /\ responses[2].status = 200
    /\ responses[2].url # callbackUrl

\* C16: a stored expiry is the time of issue plus the stated lifetime minus
\* the five-minute buffer, and a chat request is sent only before the stored
\* expiry of the access token it carries.
C16_NoRequestAtOrAfterStoredExpiry ==
    [][/\ tokenFile' # tokenFile =>
             tokenFile'.expires = now + ExpiresIn * 1000 - 5 * 60 * 1000
       /\ (\E t \in Tasks : pc[t] # "send" /\ pc'[t] = "send") =>
             now' < tokens'.expires]_vars

\* A catch block has just called getValidTokens: the error caught holds 401.
CalledGetValidTokens ==
    /\ failure = NoFailure
    /\ failure' # NoFailure
    /\ failure'.message \in {"API error (HTTP 401)", "API error (HTTP 500): code 401"}

\* C17: getValidTokens with an unexpired stored token returns it, sends no
\* request and writes nothing; with an expired one it sends one refresh
\* request; when that succeeds the file and the token returned carry the new
\* access and expires and the refresh token, email and projectId of before;
\* when it fails nothing is returned and the file is as before.
C17_GetValidTokensFrame ==
    [][/\ (CalledGetValidTokens /\ now < tokenFile.expires) =>
             /\ refreshReqs' = refreshReqs
             /\ tokenFile' = tokenFile
             /\ tokens' = [access |-> tokenFile.access, expires |-> tokenFile.expires]
             /\ \A t \in Tasks : pc'[t] = "idle"
       /\ (CalledGetValidTokens /\ ~(now < tokenFile.expires)) =>
             /\ refreshReqs' = refreshReqs + 1
             /\ tokenFile' = tokenFile
             /\ tokens' = tokens
             /\ \E t \in Tasks : pc'[t] = "refresh"
       /\ \A t \in Tasks : (pc[t] = "refresh" /\ pc'[t] # "refresh") =>
             /\ refreshReqs' = refreshReqs
             /\ refreshReqs = 1
             /\ \/ /\ "Token refreshed" \in chatLog'
                   /\ tokenFile'.access # tokenFile.access
                   /\ tokenFile'.expires = now + ExpiresIn * 1000 - 5 * 60 * 1000
                   /\ tokenFile'.refresh = tokenFile.refresh
                   /\ tokenFile'.email = tokenFile.email
                   /\ tokenFile'.projectId = tokenFile.projectId
                   /\ tokens' = [access |-> tokenFile'.access,
                                 expires |-> tokenFile'.expires]
                \/ /\ "Refresh failed" \in chatLog'
                   /\ tokenFile' = tokenFile
                   /\ tokens' = tokens]_vars

C17_Witness ==
    /\ "Token refreshed" \in chatLog
    /\ refreshReqs = 1
    /\ tokenFile.access = 1
    /\ tokenFile.refresh = "1//refresh"
    /\ tokenFile.email = "user@example.com"
    /\ tokens.access = 1

\* What readStream has emitted and would return with the locals loc.
Result(loc) ==
    [events |-> loc.events,
     usage |-> [inputTokens |-> loc.inputTokens, outputTokens |-> loc.outputTokens],
     functionCall |-> loc.pendingFunctionCall]

\* The characters of a data line that hold its payload.
PayloadOf(line) == trim(SubSeq(line, 7, Len(line)))

\* A line that starts with "data: " and whose payload is neither empty nor
\* [DONE] nor valid JSON.
Malformed(line) ==
    /\ startsWith(line, <<"d", "a", "t", "a", ":", " ">>)
    /\ PayloadOf(line) \notin {<<>>, <<"[DONE]">>}
    /\ ~JSONParse(PayloadOf(line)).ok

RECURSIVE WellFormed(_)
\* The lines that are not malformed, in order.
WellFormed(lines) ==
    IF lines = <<>> THEN <<>>
    ELSE IF Malformed(Utf8(<<>>, Head(lines), <<>>).chars) THEN WellFormed(Tail(lines))
    ELSE <<Head(lines)>> \o WellFormed(Tail(lines))

\* The body without its malformed lines.
WithoutMalformed(body) ==
    Join(WellFormed(split(body, <<>>, <<>>).lines)) \o split(body, <<>>, <<>>).rest

RECURSIVE FramesOf(_)
\* The chunks of the data lines that hold valid JSON, in order.
FramesOf(lines) ==
    IF lines = <<>> THEN <<>>
    ELSE IF /\ startsWith(Head(lines), <<"d", "a", "t", "a", ":", " ">>)
            /\ JSONParse(PayloadOf(Head(lines))).ok
         THEN <<JSONParse(PayloadOf(Head(lines)))>> \o FramesOf(Tail(lines))
         ELSE FramesOf(Tail(lines))

\* The value of a counter in the last frame of the body that carries it, or 0.
LastCarried(counter) ==
    LET frames == FramesOf(split(Utf8(<<>>, stream, <<>>).chars, <<>>, <<>>).lines)
        carrying == {i \in 1..Len(frames) : frames[i][counter] # {}}
        last == CHOOSE i \in carrying : \A j \in carrying : j <= i
    IN  IF carrying = {} THEN 0 ELSE CHOOSE n \in frames[last][counter] : TRUE

\* C18: however the bytes read so far were split into chunks, the events
\* emitted and the locals of the decoder are those of reading the same bytes
\* as one chunk, and so are the events, usage and function call when
\* readStream returns.
C18_ChunkingDoesNotMatter ==
    /\ Locals = ReadChunk(NoLocals, SubSeq(stream, 1, pos))
    /\ returned => Result(Locals) = Result(ReadChunk(NoLocals, stream))

C18_Witness ==
    /\ utf8Pending = <<"C3">>
    /\ buffer # <<>>
    /\ events = <<[on |-> "text", val |-> "e-acute"]>>
    /\ inputTokens = 2

\* C19: readStream returns for a body with malformed data lines, and what it
\* emitted and returns is what it emits and returns for the body without
\* those lines.
C19_MalformedLinesAreSkipped ==
    /\ returned =>
          Result(Locals) = Result(ReadChunk(NoLocals, WithoutMalformed(stream)))
    /\ (~returned /\ pos = Len(stream)) => ENABLED Return

C19_Witness ==
    /\ returned
    /\ stream = Join(<<UsageLine, MalformedLine, TextLine>>)
    /\ events = <<[on |-> "text", val |-> "e-acute"]>>
    /\ inputTokens = 2
    /\ outputTokens = 1

\* C20: the usage readStream returns holds, for each counter, the value of
\* the last frame of the body that carried it, and 0 if none did.
C20_UsageIsLastValue ==
    returned =>
        /\ inputTokens = LastCarried("promptTokenCount")
        /\ outputTokens = LastCarried("candidatesTokenCount")

C20_Witness ==
    /\ returned
    /\ stream = Join(<<UsageLine, LaterUsageLine, CallLine>>)
    /\ inputTokens = 1
    /\ outputTokens = 0

\* C21: each part handled by the loop does exactly one thing. A part with a
\* functionCall becomes the pending function call and is handed to
\* onFunctionCall once where that callback is registered, with no text or
\* thinking event even when the part carries text; any other part with a
\* non-empty text gives one thinking event when it is flagged as thought and
\* onThinking is registered, and one text event otherwise; a part with
\* neither gives no event. Earlier events stay as they were.
C21_OneOutcomePerPart ==
    [][partIndex' = partIndex + 1 =>
        LET part == frame[partIndex + 1]
            emitted == SubSeq(events', Len(events) + 1, Len(events'))
        IN  /\ SubSeq(events', 1, Len(events)) = events
            /\ IF part.functionCall # NoCall
               THEN /\ pendingFunctionCall' = part.functionCall
                    /\ emitted = IF callbacks.onFunctionCall
                                 THEN <<[on |-> "functionCall",
                                         val |-> part.functionCall.name]>>
                                 ELSE <<>>
               ELSE /\ pendingFunctionCall' = pendingFunctionCall
                    /\ IF part.text = {"x"}
                       THEN emitted =
                                <<[on |-> IF part.thought /\ callbacks.onThinking
                                          THEN "thinking" ELSE "text",
                                   val |-> "x"]>>
                       ELSE emitted = <<>>]_vars

C21_Witness ==
    /\ partIndex = 2
    /\ frame[1] = [functionCall |-> [name |-> "exec", args |-> "ok"], text |-> {"x"},
                   thought |-> FALSE]
    /\ frame[2] = [functionCall |-> NoCall, text |-> {"x"}, thought |-> TRUE]
    /\ ~callbacks.onThinking
    /\ events = <<[on |-> "functionCall", val |-> "exec"], [on |-> "text", val |-> "x"]>>

\* The stream decoder has not been started.
DecoderIdle ==
    /\ stream = <<>>
    /\ pos = 0
    /\ events = <<>>
    /\ pendingFunctionCall = NoCall
    /\ ~returned

\* C22: a call of sendMessage has called fetch exactly once wherever it
\* stands. After a response with a status outside 200..299 it invokes no
\* callback and never starts the decoder, and it fails with the error that
\* holds the status and the body of the response as soon as that body is read;
\* after a response with a success status and no body it fails with the
\* empty-body error, which is not that error; the decoder runs only after a
\* response with a success status and a body.
C22_OneRequestThenFailOrDecode ==
    /\ Len(fetches) = IF callPc = "idle" THEN 0 ELSE 1
    /\ (res # NoResponse /\ res.status \notin 200..299) =>
          /\ DecoderIdle
          /\ callPc \in {"text", "threw"}
          /\ callPc = "text" => ENABLED TextResolves
          /\ callPc = "threw" =>
                thrown = [message |-> "API error", status |-> res.status,
                          body |-> IF res.body = null THEN <<>> ELSE res.body]
    /\ (res # NoResponse /\ res.status \in 200..299 /\ res.body = null) =>
          /\ DecoderIdle
          /\ callPc = "threw"
          /\ thrown = [message |-> "API returned an empty response body."]
    /\ (callPc = "stream" \/ ~DecoderIdle) =>
          /\ res.status \in 200..299
          /\ res.body # null
          /\ thrown = NoError

C22_Witness ==
    /\ callPc = "threw"
    /\ res.status = 500
    /\ Join(<<TextLine>>) = res.body
    /\ thrown.message = "API error"
    /\ thrown = [message |-> "API error", status |-> 500, body |-> Join(<<TextLine>>)]
    /\ events = <<>>
    /\ fetches = <<"streamGenerateContent">>

\* C23: the contents of every request in flight, converted from history when
\* sendMessage was called, start with an entry of role user and hold no two
\* consecutive entries of the same role.
C23_RequestContentsAlternate ==
    \A t \in Tasks :
        pc[t] = "send" =>
            LET contents == toContents(history)
            IN  /\ contents # <<>>
                /\ contents[1].role = "user"
                /\ \A i \in 1..(Len(contents) - 1) :
                       contents[i].role # contents[i + 1].role

\* A token field that holds a character other than white space.
NonBlank(value) ==
    \E chars \in value : \E i \in 1..Len(chars) : chars[i] \notin {" ", "\r"}

\* The answer of the token endpoint is a success that carries both tokens.
BothTokens ==
    /\ res.status \in 200..299
    /\ res.body # [syntax |-> "error"]
    /\ NonBlank(res.body.access_token)
    /\ NonBlank(res.body.refresh_token)

\* C24: exchangeCode has sent one request, to the token endpoint, wherever
\* it stands past the call. After an answer that is not a success, or that
\* lacks a non-blank access token or a non-blank refresh token, it returns
\* nothing and ends by throwing an error; it returns only after a success
\* with both tokens, and then access and refresh are the tokens of the answer
\* and expires is the expiry computed from its lifetime.
C24_ExchangeFailsWithoutBothTokens ==
    /\ fetches = IF callPc = "idle" THEN <<>> ELSE <<"TOKEN_URL">>
    /\ (res # NoResponse /\ ~BothTokens) =>
          /\ resolved = NoResult
          /\ callPc \in {"text", "json", "threw"}
          /\ callPc = "text" => ENABLED TokenTextResolves
          /\ callPc = "json" => ENABLED TokenJsonSettles
          /\ callPc = "threw" <=> thrown # NoError
    /\ callPc = "returned" =>
          /\ BothTokens
          /\ thrown = NoError
          /\ NonBlank({resolved.access})
          /\ NonBlank({resolved.refresh})
          /\ \E seconds \in res.body.expires_in \cup {0} :
                 /\ res.body.expires_in \in {{}, {seconds}}
                 /\ seconds = 0 => res.body.expires_in = {}
                 /\ resolved.expires = now + seconds * 1000 - TOKEN_EXPIRY_BUFFER_MS
    /\ callPc # "returned" => resolved = NoResult

C24_Witness ==
    /\ callPc = "threw"
    /\ res.status = 200
    /\ res.body # [syntax |-> "error"]
    /\ res.body.access_token = {<<"a">>}
    /\ res.body.refresh_token = {<<" ">>}
    /\ thrown = [message |-> "Token exchange returned no refresh_token"]

\* The answer is a success that carries a project identifier: a string, or
\* an object with a non-empty id.
CarriesProject(answer) ==
    /\ answer.status \in 200..299
    /\ answer.body # [syntax |-> "error"]
    /\ \/ answer.body.cloudaicompanionProject.type = "string"
       \/ /\ answer.body.cloudaicompanionProject.type = "object"
          /\ answer.body.cloudaicompanionProject.id # ""

\* The first endpoints of the list, in list order.
FirstEndpoints(n) ==
    SubSeq(<<"https://cloudcode-pa.googleapis.com",
             "https://daily-cloudcode-pa.sandbox.googleapis.com">>, 1, n)

\* C25: fetchProjectId contacts the endpoints in list order, the next only
\* after every one before it has failed, errored or answered without an
\* identifier; it returns the identifier of the first endpoint whose answer
\* carries one, having contacted no endpoint after that one, and the default
\* project after all endpoints when none does; it never throws.
C25_FirstProjectElseDefault ==
    LET carrying == {i \in 1..Len(answers) : CarriesProject(answers[i])}
        first == CHOOSE i \in carrying : \A j \in carrying : i <= j
    IN  /\ Len(fetches) <= 2
        /\ fetches = FirstEndpoints(Len(fetches))
        /\ \A i \in 1..(Len(fetches) - 1) : i \notin carrying
        /\ callPc \in {"idle", "fetch", "json", "returned"}
        /\ thrown = NoError
        /\ callPc # "returned" => resolved = NoResult
        /\ callPc = "returned" =>
              IF carrying = {}
              THEN resolved = "rising-fact-p41fc" /\ Len(fetches) = 2
              ELSE /\ resolved = answers[first].body.cloudaicompanionProject.id
                   /\ Len(fetches) = first

C25_Witness ==
    /\ callPc = "returned"
    /\ Len(fetches) = 2
    /\ answers[1].status = 500
    /\ res = [status |-> 200,
              body |-> [cloudaicompanionProject |-> [type |-> "object", id |-> "p-object"]]]
    /\ resolved = "p-object"

\* The remaining quota the claim counts for a model, in hundredths: the
\* number the answer holds, as a number or as a string of digits, and 100
\* where the quota is missing or is not numeric.
CountedQuota(raw) ==
    IF raw \in {[type |-> "number", val |-> "50"], [type |-> "string", val |-> "50"]}
    THEN 50 ELSE 100

\* C26: what fetchAvailableModels returns holds exactly the models of the
\* answer whose id does not start, in whatever case, with chat_ or tab_; a
\* model of greater counted quota stands before one of smaller, and of two
\* models of equal counted quota the one with the smaller id stands first.
C26_ModelsFilteredAndOrdered ==
    (callPc = "returned" /\ res.body.models # {}) =>
        LET list == CHOOSE l \in res.body.models : TRUE
            shown == {list[i].id : i \in 1..Len(list)}
                         \ {<<"c", "h", "a", "t", "_", "d">>, <<"T", "A", "B", "_", "e">>}
        IN  /\ {resolved[i].id : i \in 1..Len(resolved)} = shown
            /\ Len(resolved) = Cardinality(shown)
            /\ \A i \in 1..Len(resolved) : \E j \in 1..Len(list) : resolved[i] = list[j]
            /\ \A i, j \in 1..Len(resolved) :
                   i < j =>
                       \/ CountedQuota(resolved[i].raw) > CountedQuota(resolved[j].raw)
                       \/ /\ CountedQuota(resolved[i].raw) = CountedQuota(resolved[j].raw)
                          /\ localeBefore(resolved[i].id, resolved[j].id)

\* The positions of chars inside a code region.
Protected(chars) ==
    {p \in 1..Len(chars) :
        \E r \in findCodeRegions(chars) : r.start <= p /\ p < r.end}

\* The positions of the tags of chars.
TagsOf(chars) == {p \in 1..Len(chars) : chars[p] \in {"O", "C"}}

RECURSIVE Split(_, _, _, _, _)
\* chars from position p on, read with the tags at positions tags only: the
\* positions left as content, the segments between an open tag and the next
\* close tag, and the open tag that is never closed (0 when there is none).
\* open is the open tag the reading is inside of (0 outside), seg the
\* positions of its segment so far.
Split(chars, tags, p, open, seg) ==
    IF p > Len(chars)
    THEN [content |-> <<>>, parts |-> IF open = 0 THEN <<>> ELSE <<seg>>,
          unclosed |-> open]
    ELSE IF open = 0
    THEN IF p \in tags
         THEN Split(chars, tags, p + 1, IF chars[p] = "O" THEN p ELSE 0, <<>>)
         ELSE LET rest == Split(chars, tags, p + 1, 0, <<>>)
              IN  [rest EXCEPT !.content = <<p>> \o @]
    ELSE IF p \in tags /\ chars[p] = "C"
    THEN LET rest == Split(chars, tags, p + 1, 0, <<>>)
         IN  [rest EXCEPT !.parts = <<seg>> \o @]
    ELSE Split(chars, tags, p + 1, open, Append(seg, p))

\* rawText read with the tags outside code regions.
Reading == Split(rawText, TagsOf(rawText) \ Protected(rawText), 1, 0, <<>>)

\* The positions in a sequence of positions.
Range(at) == {at[k] : k \in 1..Len(at)}

\* C27: stripInlineThinkingTags takes out of the content every segment between
\* an open tag and the next close tag that lie outside code regions, together
\* with the tags, and returns the segments, each with the white space around
\* it trimmed, as thinking in the order of the text joined by line feeds; the
\* text <open>x<close>x gives the first x as thinking and the second as
\* content; a text without a tag comes back unchanged with empty thinking.
C27_SegmentsBecomeThinking ==
    stripped # NoResult =>
        /\ IF quickTag(rawText)
           THEN /\ stripped.thinking =
                       Text(rawText,
                            trimAt(rawText,
                                   join([k \in 1..Len(Reading.parts) |->
                                            trimAt(rawText, Reading.parts[k])])))
                /\ stripped.content = Text(rawText, trimAt(rawText, Reading.content))
           ELSE stripped.thinking = <<>> /\ stripped.content = rawText
        /\ rawText = <<"O", "x", "C", "x">> =>
               stripped.from = [thinking |-> <<2>>, content |-> <<4>>]

\* A text with two segments outside code and content around them was stripped.
C27_Witness ==
    /\ stripped # NoResult
    /\ Len(Reading.parts) = 2
    /\ Reading.unclosed = 0
    /\ stripped.content # <<>>
    /\ Len(stripped.thinking) = 3

\* The tags of rawText inside a code region.
ProtectedTags == TagsOf(rawText) \cap Protected(rawText)

\* C28 as stated: a tag inside a code region stays in the content and no
\* character of it is in thinking, whatever is open at its position.
C28_ProtectedTagStaysInContent ==
    stripped # NoResult =>
        \A p \in ProtectedTags :
            /\ p \in Range(stripped.from.content)
            /\ p \notin Range(stripped.from.thinking)

\* rawText with an ordinary character at position p.
Literal(p) == [rawText EXCEPT ![p] = "x"]

\* C28: a tag inside a fenced code block or an inline code span neither opens
\* nor closes a thinking segment, whatever is open at its position: the text
\* is stripped as it would be with an ordinary character in the tag's place.
\* Where no segment is open the tag stays in the content and is not in
\* thinking; inside an open segment it is part of that segment's text.
C28_ProtectedTagIsLiteral ==
    stripped # NoResult =>
        \A p \in ProtectedTags :
            /\ stripInlineThinkingTags(Literal(p)).from.thinking = stripped.from.thinking
            /\ trimAt(Literal(p), stripInlineThinkingTags(Literal(p)).from.content)
                   = stripped.from.content
            /\ IF p \in Range(Reading.content)
               THEN /\ p \in Range(stripped.from.content)
                    /\ p \notin Range(stripped.from.thinking)
               ELSE /\ p \in Range(stripped.from.thinking)
                    /\ p \notin Range(stripped.from.content)

\* A close tag in a code span inside an open segment was read as text of the
\* segment, which a later close tag ended.
C28_Witness ==
    /\ stripped # NoResult
    /\ Reading.unclosed = 0
    /\ \E p \in ProtectedTags :
           /\ rawText[p] = "C"
           /\ p \in Range(stripped.from.thinking)

\* C29: when a tag opened outside a code region is never closed, the text
\* after it is returned as thinking, none of it is in the content, and the
\* content is what preceded the tag outside the segments before it.
C29_UnclosedTagTakesTheRest ==
    (stripped # NoResult /\ Reading.unclosed # 0) =>
        /\ SelectSeq(stripped.from.thinking, LAMBDA p : p > Reading.unclosed)
               = trimAt(rawText, slice(Reading.unclosed + 1, Len(rawText) + 1))
        /\ \A p \in Range(stripped.from.content) : p < Reading.unclosed
        /\ stripped.from.content =
               trimAt(rawText, SelectSeq(Reading.content,
                                         LAMBDA p : p < Reading.unclosed))

\* A text with content, an open tag and text after it was stripped.
C29_Witness ==
    /\ stripped # NoResult
    /\ Reading.unclosed > 1
    /\ stripped.content # <<>>
    /\ stripped.thinking # <<>>
    /\ Len(rawText) \in Range(stripped.from.thinking)

\* The timeout asked for, between 1 and 300 seconds, 30 when none is given.
Clamped ==
    IF timeout = {} THEN 30
    ELSE LET n == CHOOSE n \in timeout : TRUE
         IN  IF n < 1 THEN 1 ELSE IF n > 300 THEN 300 ELSE n

\* The timer is set to the clamped timeout.
C30_TimeoutClamped == execPc # "idle" => timeoutSec = Clamped

\* A command the timer found running is reported as killed after N seconds
\* with a failed status.
C30_KilledIsReported ==
    (execPc = "returned" /\ proc.signalled) =>
        /\ execResult.killed
        /\ execResult.status = "failed"
        /\ execResult.note = Clamped

\* A command that exited before the timeout is not reported as killed.
C30_FinishedIsNotKilled ==
    (execPc = "returned" /\ proc.state = "exited" /\ proc.exitedAt < timeoutSec) =>
        ~execResult.killed

\* C30: the exec tool runs the command under the requested timeout clamped to
\* between 1 and 300 seconds, 30 when none is given; a command running when
\* the timer runs out is killed and reported as killed after N seconds with a
\* failed status; a command that exits before the timeout is never reported
\* as killed.
C30_KilledOnlyOnTimeout ==
    /\ C30_TimeoutClamped
    /\ C30_KilledIsReported
    /\ C30_FinishedIsNotKilled

\* C31: in one call of exec the process is sent a kill at most once, whichever
\* of the timeout and the abort signal comes first and whenever it exits.
C31_KilledAtMostOnce == proc.kills <= 1

\* C32: every result of exec carries an exit code and a duration: of a
\* command that exits with 0, that exits with another code, that was killed
\* on timeout, and that could not be started.
C32_ExitCodeAndDurationAlways ==
    execPc = "returned" =>
        /\ execResult.exitCode # {}
        /\ execResult.durationMs # {}
        /\ (execResult.kind = "result" /\ proc.exitCode # {}) =>
               execResult.exitCode = proc.exitCode

\* The function calls of the parts handled so far, in their order.
CallsSoFar ==
    LET handled == SubSeq(frame, 1, partIndex)
        withCall == SelectSeq(handled, LAMBDA part : part.functionCall # NoCall)
    IN  [k \in 1..Len(withCall) |-> withCall[k].functionCall]

\* What the round-trip has added to the history the turn started with.
AddedInRound == SubSeq(history, Len(histAtStart) + 1, Len(history))

\* C33: of several function-call parts of one response the callback is called
\* once for each in the order of the stream and the last is what the decoder
\* returns; the loop appends and executes that call alone, and text of the
\* same round-trip is not appended to history.
C33_LastCallOfResponseRuns ==
    started = 1 =>
        /\ SelectSeq(events, LAMBDA e : e.on = "functionCall")
               = [k \in 1..Len(CallsSoFar) |->
                     [on |-> "functionCall", val |-> CallsSoFar[k].name]]
        /\ pendingFunctionCall =
               IF CallsSoFar = <<>> THEN NoCall ELSE CallsSoFar[Len(CallsSoFar)]
        /\ \A t \in Tasks :
               /\ pc[t] = "send" /\ loopCount[t] = 1 => AddedInRound = <<UserMsg("hello")>>
               /\ pc[t] = "tool" =>
                      /\ call[t] = CallsSoFar[Len(CallsSoFar)]
                      /\ AddedInRound = <<UserMsg("hello"), FunctionCallMsg(call[t])>>
               /\ pc[t] = "send" /\ loopCount[t] = 2 =>
                      /\ Len(AddedInRound) = 3
                      /\ SubSeq(AddedInRound, 1, 2) =
                             <<UserMsg("hello"),
                               FunctionCallMsg(CallsSoFar[Len(CallsSoFar)])>>
                      /\ AddedInRound[3].role = "function_response"
                      /\ AddedInRound[3].name = CallsSoFar[Len(CallsSoFar)].name

\* A response with two different function calls was answered by running the
\* second call.
C33_Witness ==
    /\ Len(CallsSoFar) = 2
    /\ CallsSoFar[1] # CallsSoFar[2]
    /\ \E t \in Tasks : pc[t] = "send" /\ loopCount[t] = 2
    /\ history[Len(history)].role = "function_response"

\* The characters of the text that are in the result.
Kept(r) == (r.head.to - r.head.from + 1) + (r.tail.to - r.tail.from + 1)

\* C34: a text longer than the ceiling is returned as a head and a tail of
\* it, no longer than the ceiling in all, and the number in the marker is the
\* number of characters left out: the length of the text less the characters
\* kept.
C34_MarkerCountsOmitted ==
    (truncated # NoResult /\ textLength > DEFAULT_MAX_OUTPUT) =>
        /\ truncated.head.from = 1 /\ truncated.head.to >= 1
        /\ truncated.tail.to = textLength /\ truncated.tail.from <= textLength
        /\ truncated.head.to < truncated.tail.from
        /\ truncated.length <= DEFAULT_MAX_OUTPUT
        /\ truncated.stated = {textLength - Kept(truncated)}

\* The head, the tail and the length of a truncated text, without the number.
C34_HeadAndTailWithinCeiling ==
    (truncated # NoResult /\ textLength > DEFAULT_MAX_OUTPUT) =>
        /\ truncated.head.from = 1 /\ truncated.head.to >= 1
        /\ truncated.tail.to = textLength /\ truncated.tail.from <= textLength
        /\ truncated.head.to < truncated.tail.from
        /\ truncated.length <= DEFAULT_MAX_OUTPUT

\* sendMessage resolves in this step, with or without a function call.
RoundTripSucceeds ==
    \E t \in Tasks :
        /\ pc[t] = "send"
        /\ \/ pc'[t] = "tool"
           \/ pc'[t] = "idle" /\ ended' = "text"

\* /clear is handled in this step.
Cleared == commands' = commands + 1 /\ chatLog' = {"Conversation cleared."}

\* The body up to and with its last line feed.
Terminated(body) == Join(split(body, <<>>, <<>>).lines)

\* C36: when readStream returns, what follows the last line feed of the body
\* is still in the buffer, and the events emitted, the usage and the function
\* call returned are those of the body cut after its last line feed.
C36_UnterminatedLineIsDropped ==
    returned =>
        /\ buffer = Utf8(<<>>, split(stream, <<>>, <<>>).rest, <<>>).chars
        /\ Result(Locals) = Result(ReadChunk(NoLocals, Terminated(stream)))

C36_Witness ==
    /\ returned
    /\ stream = Join(<<UsageLine>>) \o UnterminatedLine
    /\ buffer = UnterminatedLine
    /\ events = <<>>
    /\ inputTokens = 2
    /\ outputTokens = 1
    /\ pendingFunctionCall = NoCall

\* C35: the cumulative usage is the sum of the usage of the successful
\* round-trips since the session started or /clear was last handled: a
\* round-trip that succeeds adds its counters once, /clear starts from zero,
\* and no other step, a failed round-trip included, changes the counters.
C35_UsageIsSumOfSuccessfulRoundTrips ==
    /\ [](started = 0 /\ commands = 0 => totalUsage = ZeroUsage)
    /\ [][/\ RoundTripSucceeds =>
               /\ totalUsage'.inputTokens =
                      totalUsage.inputTokens + ResultUsage.inputTokens
               /\ totalUsage'.outputTokens =
                      totalUsage.outputTokens + ResultUsage.outputTokens
          /\ Cleared => totalUsage' = [inputTokens |-> 0, outputTokens |-> 0]
          /\ ~RoundTripSucceeds /\ ~Cleared => totalUsage' = totalUsage]_vars

\* Two round-trips of a turn succeeded and /clear was handled between them:
\* the counters hold the usage of the second alone.
C35_Witness ==
    /\ ended = "text"
    /\ sends = 2
    /\ commands = 1
    /\ totalUsage = ResultUsage

\* C37: in the agent-session chat the busy flag is set while a call of
\* session.prompt has not returned.
C37_BusyWhilePromptInFlight == PromptsInFlight # {} => sessionBusy

\* In the agent-session chat at most one call of session.prompt has not
\* returned.
C37_OnePromptInFlight == Cardinality(PromptsInFlight) <= 1

====
